---- MODULE Spec2Model ----
(***************************************************************************)
(* A model of the RACE native adapter (race-adapter/src/main/c):           *)
(*   - hmap.c / hmap.h : open addressing string hash map with delayed      *)
(*     delete, double hashing, tiered rehash and relocation on lookup      *)
(*   - race.c, messages.c, databuf.c : the UDP connection engine, the      *)
(*     message layer and the big-endian buffer codec                       *)
(* Each subsystem has its own specification over the module's variables;   *)
(* the variables of the other subsystem stay at their initial values.      *)
(***************************************************************************)
EXTENDS Integers, Sequences, FiniteSets, TLC

VARIABLES
  map,      \* hmap_t: consts, const_idx, n_entries, n_removed, entries
  shadow,   \* what the caller of the map has added and not removed since
  hfault,   \* "none", or how a map operation left the defined behaviour:
            \* "oob" (it read past the entries array), "hang" (a probe loop
            \* that finds neither a free slot nor a match)
  hiter     \* the slots an iteration with hmap_first_entry / hmap_next_entry
            \* returned, when it was the last thing done with the map

hvars == <<map, shadow, hfault, hiter>>

VARIABLES
  cdb,      \* databuf_t: the buffer the codec calls work on
  clast,    \* the last codec call: its name, its arguments, the buffer before
            \* it, what it returned and what it stored through its out pointer
  coob,     \* a codec call has read or written a byte outside [0, capacity)
  cn        \* codec calls made so far

cvars == <<cdb, clast, coob, cn>>

VARIABLES
  role,       \* "server" (race_server runs) or "client" (race_client runs)
  context,    \* local_context_t: flags, stop_local, connect_interval_millis, time_diff
  local,      \* local_endpoint_t: mem, id, interval_millis, is_non_blocking, db
  remote,     \* remote_endpoint_t: mem, addr, id, time_request, time_last, is_stopped
  n_remote,   \* static int n_remote
  pc,         \* where the calling thread is in race_server / race_client
  rpc,        \* where the receiver thread is: "none", "loop", "recv", "exited", "cancelled"
  cancel_req, \* pthread_cancel has been called on the receiver and is pending
  n_threads,  \* receiver threads created and not yet joined
  clock,      \* race_epoch_millis()
  sent,       \* the sendto calls for the current remote: to, msg, ok
  delivered,  \* what the receiver handed to the application on this connection:
              \* read_data with the send time, connection_paused / _resumed
  report,     \* what the last step reported with context->info / warning / error
  calls,      \* the callbacks and sender operations of the calling thread for the
              \* current remote
  accepted,   \* the ids of the remotes wait_for_request returned, in order
  loop_exit,  \* how the sender loop of the current connection ended: "none" while
              \* it has not, "stop_local" when context->stop_local was set and the
              \* remote not stopped, "send_error" when send_data failed,
              \* else "other"
  ret         \* what race_server / race_client returned: "none" while running

evars == <<role, context, local, remote, n_remote, pc, rpc, cancel_req, n_threads,
           clock, sent, delivered, report, calls, accepted, loop_exit, ret>>

vars == <<map, shadow, hfault, hiter, cdb, clast, coob, cn, role, context, local, remote, n_remote, pc, rpc,
          cancel_req, n_threads, clock, sent, delivered, report, calls, accepted,
          loop_exit, ret>>

(***************************************************************************)
(* 32 bit unsigned arithmetic.  A uint32_t is the pair <<hi, lo>> of its   *)
(* 16 bit halves, as the model checker's integers are narrower than 2^32.  *)
(***************************************************************************)
RECURSIVE XorN(_, _, _)
XorN(a, b, n) ==
  IF n = 0 THEN 0
  ELSE (((a % 2) + (b % 2)) % 2) + 2 * XorN(a \div 2, b \div 2, n - 1)

RECURSIVE ShiftMod(_, _, _)
ShiftMod(r, n, m) == IF n = 0 THEN r ELSE ShiftMod((r * 2) % m, n - 1, m)

\* h % m for a uint32_t h = hi * 2^16 + lo
U32Mod(h, m) ==
  IF m < 32768 THEN (((h[1] % m) * 65536) + h[2]) % m
  ELSE (ShiftMod(h[1] % m, 16, m) + (h[2] % m)) % m

\* h ^= c ; h *= 0x01000193   (one round of FNV-1a, modulo 2^32)
FnvRound(h, c) ==
  LET lo1 == (h[2] \div 256) * 256 + XorN(h[2] % 256, c, 8)
      p   == lo1 * 403
  IN  <<((h[1] * 403) + (lo1 * 256) + (p \div 65536)) % 65536, p % 65536>>

RECURSIVE FnvFrom(_, _, _)
FnvFrom(h, key, i) ==
  IF i > Len(key) THEN h ELSE FnvFrom(FnvRound(h, key[i]), key, i + 1)

\* uint32_t h = 2166136261ul, then one round per byte of the key
hmap_hash(key) == FnvFrom(<<33052, 40389>>, key, 1)

\* the keys the callers of the map use: C strings, given by their bytes
KeyList == <<
  <<65, 50>>,                       \* "A2"
  <<73, 80, 72, 65, 77, 50, 65>>,   \* "IPHAM2A"
  <<65, 51, 50>>,                   \* "A32"
  <<65, 51>>,                       \* "A3"
  <<65, 54>>,                       \* "A6"
  <<65, 49, 51>>,                   \* "A13"
  <<65, 50, 52>>,                   \* "A24"
  <<65, 48>>,                       \* "A0"
  <<65, 49>>,                       \* "A1"
  <<65, 52>>,                       \* "A4"
  <<65, 53>>,                       \* "A5"
  <<65, 55>>,                       \* "A7"
  <<65, 56>>,                       \* "A8"
  <<65, 57>>,                       \* "A9"
  <<65, 49, 48>>,                   \* "A10"
  <<65, 49, 49>>,                   \* "A11"
  <<65, 49, 50>>,                   \* "A12"
  <<65, 49, 52>> >>                 \* "A14"

\* hmap_hash of each of these keys, computed once
KeyHash == [i \in 1 .. Len(KeyList) |-> hmap_hash(KeyList[i])]

HashOf(key) == KeyHash[CHOOSE i \in 1 .. Len(KeyList) : KeyList[i] = key]

(***************************************************************************)
(* hmap.c                                                                  *)
(***************************************************************************)
NULL == <<-1>>          \* the null key pointer: no byte string
NoData == 0             \* the null data pointer

\* #define DELETED_HASH -1, stored into the uint32_t hash field
DELETED_HASH == <<65535, 65535>>
ZERO_HASH == <<0, 0>>

Tier(me, mr, sz, rh) ==
  [max_entries |-> me, max_removed |-> mr, size |-> sz, rehash |-> rh]

\* static hmap_const_t map_consts[]: max_ent, max_rem, size, rehash
map_consts == <<
  Tier(8, 2, 13, 11),
  Tier(16, 3, 19, 17),
  Tier(32, 6, 43, 41),
  Tier(64, 8, 73, 71),
  Tier(128, 10, 151, 149),
  Tier(256, 20, 283, 281),
  Tier(512, 40, 571, 569),
  Tier(1024, 80, 1153, 1151),
  Tier(2048, 150, 2269, 2267),
  Tier(4096, 300, 4519, 4517),
  Tier(8192, 600, 9013, 9011),
  Tier(16384, 1000, 18043, 18041),
  Tier(32768, 2000, 36109, 36107),
  Tier(65536, 3000, 72091, 72089),
  Tier(131072, 5000, 144409, 144407),
  Tier(262144, 8000, 288361, 288359),
  Tier(524288, 10000, 576883, 576881),
  Tier(1048576, 10000, 1153459, 1153457),
  Tier(2097152, 10000, 2307163, 2307161),
  Tier(4194304, 10000, 4613893, 4613891),
  Tier(8388608, 10000, 9227641, 9227639),
  Tier(16777216, 10000, 18455029, 18455027) >>

\* ARRAY_SIZE(map_consts)
N_CONSTS == Len(map_consts)

\* map_consts[i] with the C index i = 0 .. N_CONSTS-1
ConstsAt(i) == map_consts[i + 1]

\* the first tier whose size is >= the requested one, -1 if there is none
get_const_idx(size) ==
  LET ok == {i \in 0 .. N_CONSTS - 1 : ConstsAt(i).size >= size}
  IN  IF ok = {} THEN -1 ELSE CHOOSE i \in ok : \A j \in ok : i <= j

FreeEntry == [key |-> NULL, hash |-> ZERO_HASH, data |-> NoData]
DeletedEntry == [key |-> NULL, hash |-> DELETED_HASH, data |-> NoData]

\* calloc(size, sizeof(hmap_entry_t))
EmptyEntries(size) == [i \in 0 .. size - 1 |-> FreeEntry]

is_free_entry(e) == e.key = NULL /\ e.hash = ZERO_HASH

is_deleted_entry(e) == e.hash = DELETED_HASH

\* strcmp(e->key, key) == 0 compares the bytes of the two strings
is_matching_entry(e, hash, key) == e.hash = hash /\ e.key # NULL /\ e.key = key

hmap_create(init_size) ==
  LET const_idx == get_const_idx(init_size)
  IN  [consts    |-> ConstsAt(const_idx),
       const_idx |-> const_idx,
       n_entries |-> 0,
       n_removed |-> 0,
       entries   |-> EmptyEntries(ConstsAt(const_idx).size)]

\* a variant of next_index whose step is the table size: the probe stays where it is
next_index_no_step(m, idx, h) == (idx + m.consts.size) % m.consts.size

\* uint32_t h2 = 1 + h % map->consts.rehash; return (idx + h2) % map->consts.size
next_index(m, idx, h) == (idx + 1 + U32Mod(h, m.consts.rehash)) % m.consts.size

\* the probe of rehash's inner while loop in the new array: the first free
\* slot from idx on, -1 if the loop never ends
RECURSIVE rehash_probe(_, _, _, _, _, _)
rehash_probe(new_entries, new_size, new_rehash, h, idx, n) ==
  IF is_free_entry(new_entries[idx]) THEN idx
  ELSE IF n >= new_size THEN -1
  ELSE rehash_probe(new_entries, new_size, new_rehash, h,
                    (idx + 1 + U32Mod(h, new_rehash)) % new_size, n + 1)

\* rehash's for loop: for (e = map->entries; n_rehashed < n_entries; e++).
\* The loop has no bound on e but the count of keys found: with fewer keys
\* in the array than n_entries says, it reads past the array ("oob").
RECURSIVE rehash_loop(_, _, _, _, _, _)
rehash_loop(m, i, n_rehashed, new_entries, new_size, new_rehash) ==
  IF n_rehashed >= m.n_entries THEN [entries |-> new_entries, fault |-> "none"]
  ELSE IF i >= m.consts.size THEN [entries |-> new_entries, fault |-> "oob"]
  ELSE IF m.entries[i].key # NULL
  THEN LET e == m.entries[i]
           new_idx == rehash_probe(new_entries, new_size, new_rehash, e.hash,
                                   U32Mod(e.hash, new_size), 0)
       IN  IF new_idx < 0 THEN [entries |-> new_entries, fault |-> "hang"]
           ELSE rehash_loop(m, i + 1, n_rehashed + 1,
                            [new_entries EXCEPT ![new_idx] = e],
                            new_size, new_rehash)
  ELSE rehash_loop(m, i + 1, n_rehashed, new_entries, new_size, new_rehash)

\* static bool rehash (hmap_t* map, bool grow)
rehash(m, grow) ==
  LET const_idx == IF grow THEN m.const_idx + 1 ELSE m.const_idx
  IN  IF const_idx < N_CONSTS
      THEN LET new_size == ConstsAt(const_idx).size
               new_rehash == ConstsAt(const_idx).rehash
               r == rehash_loop(m, 0, 0, EmptyEntries(new_size), new_size, new_rehash)
           IN  [ok |-> TRUE, fault |-> r.fault,
                map |-> [consts    |-> IF grow THEN ConstsAt(const_idx) ELSE m.consts,
                         const_idx |-> IF grow THEN const_idx ELSE m.const_idx,
                         n_entries |-> m.n_entries,
                         n_removed |-> 0,
                         entries   |-> r.entries]]
      ELSE [ok |-> FALSE, fault |-> "none", map |-> m]

\* a variant of check_rehash that never grows the map
check_rehash_in_place(m) ==
  IF m.n_entries + m.n_removed >= m.consts.max_entries
  THEN rehash(m, FALSE)
  ELSE [ok |-> TRUE, fault |-> "none", map |-> m]

\* static inline bool check_rehash (hmap_t* map)
check_rehash(m) ==
  IF m.n_entries + m.n_removed >= m.consts.max_entries
  THEN rehash(m, m.n_removed <= m.consts.max_removed)
  ELSE [ok |-> TRUE, fault |-> "none", map |-> m]

\* what a map operation gives back: the map after it, whether it found or
\* stored the key, the slot and data of the entry it returns, the number of
\* slots it looked at, and whether it left the defined behaviour
HResult(m, ok, idx, data, probes, fault) ==
  [map |-> m, ok |-> ok, idx |-> idx, data |-> data, probes |-> probes,
   fault |-> fault]

\* the for loop of hmap_add_entry
RECURSIVE add_probe(_, _, _, _, _, _)
add_probe(m, key, data, h, idx, n) ==
  LET e == m.entries[idx]
  IN  IF is_free_entry(e)
      THEN HResult([m EXCEPT !.entries[idx] = [key |-> key, hash |-> h, data |-> data],
                             !.n_entries = m.n_entries + 1],
                   TRUE, idx, data, n + 1, "none")
      ELSE IF is_matching_entry(e, h, key)
      THEN HResult([m EXCEPT !.entries[idx] = [key |-> key, hash |-> h, data |-> data]],
                   TRUE, idx, data, n + 1, "none")
      ELSE IF n + 1 >= m.consts.size
      THEN HResult(m, FALSE, -1, NoData, n + 1, "hang")
      ELSE add_probe(m, key, data, h, next_index(m, idx, h), n + 1)

\* bool hmap_add_entry (hmap_t* map, const char* key, void* data)
hmap_add_entry(m, key, data) ==
  LET cr == check_rehash(m)
      h  == HashOf(key)
  IN  IF ~cr.ok THEN HResult(m, FALSE, -1, NoData, 0, "none")
      ELSE IF cr.fault # "none" THEN HResult(cr.map, FALSE, -1, NoData, 0, cr.fault)
      ELSE add_probe(cr.map, key, data, h, U32Mod(h, cr.map.consts.size), 0)

\* static inline void reloc_entry (...)
reloc_entry(m, idx_from, idx_to) ==
  [m EXCEPT !.entries[idx_to] = m.entries[idx_from],
            !.entries[idx_from] = DeletedEntry]

\* the for loop of hmap_get_entry; e_reloc is the slot remembered for the
\* relocation, -1 for the null pointer
RECURSIVE get_probe(_, _, _, _, _, _)
get_probe(m, key, h, idx, e_reloc, n) ==
  LET e == m.entries[idx]
  IN  IF is_free_entry(e)
      THEN HResult(m, FALSE, -1, NoData, n + 1, "none")
      ELSE IF is_matching_entry(e, h, key)
      THEN IF e_reloc # -1
           THEN HResult(reloc_entry(m, idx, e_reloc), TRUE, e_reloc, e.data, n + 1, "none")
           ELSE HResult(m, TRUE, idx, e.data, n + 1, "none")
      ELSE IF n + 1 >= m.consts.size
      THEN HResult(m, FALSE, -1, NoData, n + 1, "hang")
      ELSE get_probe(m, key, h, next_index(m, idx, h),
                     IF e_reloc = -1 /\ is_deleted_entry(e) THEN idx ELSE e_reloc,
                     n + 1)

\* hmap_entry_t* hmap_get_entry (hmap_t* map, const char* key)
hmap_get_entry(m, key) ==
  LET h == HashOf(key)
  IN  get_probe(m, key, h, U32Mod(h, m.consts.size), -1, 0)

\* the for loop of hmap_remove_entry
RECURSIVE remove_probe(_, _, _, _, _)
remove_probe(m, key, h, idx, n) ==
  LET e == m.entries[idx]
  IN  IF is_free_entry(e)
      THEN HResult(m, FALSE, -1, NoData, n + 1, "none")
      ELSE IF is_matching_entry(e, h, key)
      THEN HResult([m EXCEPT !.entries[idx] = DeletedEntry,
                             !.n_entries = m.n_entries - 1,
                             !.n_removed = m.n_removed + 1],
                   TRUE, idx, NoData, n + 1, "none")
      ELSE IF n + 1 >= m.consts.size
      THEN HResult(m, FALSE, -1, NoData, n + 1, "hang")
      ELSE remove_probe(m, key, h, next_index(m, idx, h), n + 1)

\* bool hmap_remove_entry (hmap_t* map, const char* key)
hmap_remove_entry(m, key) ==
  LET h == HashOf(key)
  IN  remove_probe(m, key, h, U32Mod(h, m.consts.size), 0)

\* hmap_entry_t* hmap_next_entry (hmap_t* map, hmap_entry_t* prev_entry):
\* entries are given by their slot, -1 is the null pointer
RECURSIVE next_entry_from(_, _)
next_entry_from(m, i) ==
  IF i = m.consts.size THEN -1
  ELSE IF m.entries[i].key # NULL THEN i
  ELSE next_entry_from(m, i + 1)

hmap_next_entry(m, prev_entry) ==
  next_entry_from(m, IF prev_entry = -1 THEN 0 ELSE prev_entry + 1)

hmap_first_entry(m) == hmap_next_entry(m, -1)

\* for (e = hmap_first_entry(map); e; e = hmap_next_entry(map, e)): the
\* entries the loop body sees, at most n of them
RECURSIVE IterateFrom(_, _, _, _)
IterateFrom(m, e, seen, n) ==
  IF e = -1 \/ n = 0 THEN seen
  ELSE IterateFrom(m, hmap_next_entry(m, e), Append(seen, e), n - 1)

(***************************************************************************)
(* The map under its callers: any sequence of add, get and remove over a   *)
(* few keys.  The keys are C strings, given by their bytes.                *)
(***************************************************************************)
NKeys == 3
MaxData == 2

Keys == {KeyList[i] : i \in 1 .. NKeys}
Data == 1 .. MaxData

\* the connection engine at rest, for the specifications of the other subsystems
EIdle ==
  /\ role = "none"
  /\ context = <<>>
  /\ local = <<>>
  /\ remote = <<>>
  /\ n_remote = 0
  /\ pc = "idle"
  /\ rpc = "none"
  /\ cancel_req = FALSE
  /\ n_threads = 0
  /\ clock = 0
  /\ sent = <<>>
  /\ delivered = <<>>
  /\ report = <<>>
  /\ calls = <<>>
  /\ accepted = <<>>
  /\ loop_exit = "none"
  /\ ret = "none"

\* no codec call is made, for the specifications of the other subsystems
CIdle ==
  /\ cdb = <<>>
  /\ clast = <<>>
  /\ coob = FALSE
  /\ cn = 0

\* hmap_create(8), as the tests growMap and randomOp create it
NoIteration == [done |-> FALSE, slots |-> << >>]

HInit ==
  /\ map = hmap_create(8)
  /\ shadow = <<>>
  /\ hfault = "none"
  /\ hiter = NoIteration

Add(k, d) ==
  LET r == hmap_add_entry(map, k, d)
  IN  /\ hfault = "none"
      /\ map' = r.map
      /\ hfault' = r.fault
      /\ shadow' = IF r.ok
                   THEN [x \in DOMAIN shadow \cup {k} |-> IF x = k THEN d ELSE shadow[x]]
                   ELSE shadow
      /\ hiter' = NoIteration

Get(k) ==
  LET r == hmap_get_entry(map, k)
  IN  /\ hfault = "none"
      /\ map' = r.map
      /\ hfault' = r.fault
      /\ hiter' = NoIteration
      /\ UNCHANGED shadow

Remove(k) ==
  LET r == hmap_remove_entry(map, k)
  IN  /\ hfault = "none"
      /\ map' = r.map
      /\ hfault' = r.fault
      /\ shadow' = [x \in DOMAIN shadow \ {k} |-> shadow[x]]
      /\ hiter' = NoIteration

\* the enumeration of basicTestCycle, from hmap_first_entry to NULL
Iterate ==
  /\ hfault = "none"
  /\ ~hiter.done
  /\ hiter' = [done |-> TRUE,
               slots |-> IterateFrom(map, hmap_first_entry(map), << >>, map.consts.size + 1)]
  /\ UNCHANGED <<map, shadow, hfault>>

\* the hash map exercised on its own, as test_hmap.c does: no endpoint runs
InitHmap ==
  /\ HInit
  /\ EIdle
  /\ CIdle

NextHmap ==
  \/ \E k \in Keys, d \in Data : Add(k, d) /\ UNCHANGED <<cvars, evars>>
  \/ \E k \in Keys : Get(k) /\ UNCHANGED <<cvars, evars>>
  \/ \E k \in Keys : Remove(k) /\ UNCHANGED <<cvars, evars>>
  \/ Iterate /\ UNCHANGED <<cvars, evars>>

SpecHmap == InitHmap /\ [][NextHmap]_vars

(***************************************************************************)
(* growMap: distinct keys are added to a map created with hmap_create(8),  *)
(* key number i with the data i.  The keys are those of KeyList; the next  *)
(* one added is the first or the last of those not added yet.              *)
(***************************************************************************)
MaxGrow == 18          \* keys added in one behaviour

GrowIndex(k) == CHOOSE i \in 1 .. Len(KeyList) : KeyList[i] = k

\* the positions in KeyList of the keys not added yet
NotAdded == {i \in 1 .. Len(KeyList) : KeyList[i] \notin DOMAIN shadow}

GrowNext ==
  {i \in NotAdded : (\A j \in NotAdded : i <= j) \/ (\A j \in NotAdded : i >= j)}

\* hmap_add_entry(map, key, (void*)(long)i)
GrowAdd(i) ==
  /\ Cardinality(DOMAIN shadow) < MaxGrow
  /\ Add(KeyList[i], i)
  /\ UNCHANGED <<cvars, evars>>

NextGrow == \E i \in GrowNext : GrowAdd(i)

SpecGrow == InitHmap /\ [][NextGrow]_vars

(***************************************************************************)
(* Claims about the hash map                                               *)
(***************************************************************************)

\* C1: after any sequence of hmap_add_entry, hmap_remove_entry and
\* hmap_get_entry calls, hmap_get_entry(k) returns an entry holding the value
\* of the most recent add of k if and only if k has not been removed since
\* that add, and NULL otherwise.
C1_GetReturnsLastAdded ==
  hfault = "none" =>
    \A k \in Keys :
      LET r == hmap_get_entry(map, k)
      IN  /\ r.ok <=> k \in DOMAIN shadow
          /\ r.ok => r.data = shadow[k]

(***************************************************************************)
(* databuf.c: the buffer codec.  A databuf_t is its capacity, its cursor   *)
(* pos and its bytes buf: the sequence of the bytes at the offsets 0 up to *)
(* the highest one written so far; a byte never written holds junk,        *)
(* whatever the allocation left there.                                     *)
(***************************************************************************)
Byte == 0 .. 255

\* the n bytes of the two's complement of v, most significant first (htons,
\* htonl, htonll followed by the byte copies of the writers)
RECURSIVE BE(_, _)
BE(v, n) == IF n = 0 THEN <<>> ELSE Append(BE(v \div 256, n - 1), v % 256)

\* the signed value of big-endian bytes (ntohs, ntohl, ntohll into a signed type)
RECURSIVE SValFrom(_, _, _)
SValFrom(acc, bs, i) ==
  IF i > Len(bs) THEN acc ELSE SValFrom(acc * 256 + bs[i], bs, i + 1)

\* the model checker's integers have 32 bits: a 64 bit value outside their
\* range reads as WIDE, and no step of the model goes on with such a value
WIDE == 2147483647

\* the value of big-endian bytes read into an unsigned type
sval_unsigned(bs) == SValFrom(0, bs, 1)

SVal(bs) ==
  IF Len(bs) = 8
  THEN LET ext == IF bs[5] >= 128 THEN 255 ELSE 0
           v   == SValFrom(IF bs[5] >= 128 THEN bs[5] - 256 ELSE bs[5], bs, 6)
       IN  IF (\A i \in 1 .. 4 : bs[i] = ext) /\ v # WIDE THEN v ELSE WIDE
  ELSE SValFrom(IF bs[1] >= 128 THEN bs[1] - 256 ELSE bs[1], bs, 2)

Databuf(buf, pos, capacity, junk) ==
  [buf |-> buf, pos |-> pos, capacity |-> capacity, junk |-> junk]

\* db->buf[i]
ByteAt(db, i) == IF i < Len(db.buf) THEN db.buf[i + 1] ELSE db.junk

\* the n bytes of the buffer from offset pos on
BytesAt(db, pos, n) ==
  IF pos + n <= Len(db.buf) THEN SubSeq(db.buf, pos + 1, pos + n)
  ELSE [i \in 1 .. n |-> ByteAt(db, pos + i - 1)]

\* buf[pos++] = b[0]; buf[pos++] = b[1]; ...
PutBytes(db, pos, bs) ==
  LET buf == db.buf
      pre == IF pos <= Len(buf) THEN SubSeq(buf, 1, pos)
             ELSE buf \o [i \in 1 .. pos - Len(buf) |-> db.junk]
      post == IF pos + Len(bs) < Len(buf)
              THEN SubSeq(buf, pos + Len(bs) + 1, Len(buf)) ELSE <<>>
  IN  pre \o bs \o post

\* what a codec call gives back: the buffer after it, the returned position
\* and the value read (0 when there is none)
CodecResult(db, pos, v) == [db |-> db, pos |-> pos, v |-> v]

\* static inline bool race_check_pos(databuf_t *db, int pos)
race_check_pos(db, pos) == pos >= 0 /\ pos < db.capacity

race_reset_databuf(db) == CodecResult([db EXCEPT !.pos = 0], 0, 0)

\* void race_set_short(databuf_t *db, int pos, short v): no bounds check
race_set_short(db, pos, v) == [db EXCEPT !.buf = PutBytes(db, pos, BE(v, 2))]

\* a fixed width write without the check of the position
write_fixed_unchecked(db, pos, v, n) ==
  CodecResult([db EXCEPT !.buf = PutBytes(db, pos, BE(v, n)), !.pos = pos + n], pos + n, 0)

\* a fixed width write of v in n bytes at pos
WriteFixed(db, pos, v, n) ==
  IF race_check_pos(db, pos + n)
  THEN CodecResult([db EXCEPT !.buf = PutBytes(db, pos, BE(v, n)),
                              !.pos = pos + n], pos + n, 0)
  ELSE CodecResult(db, 0, 0)

race_write_short(db, pos, v) == WriteFixed(db, pos, v, 2)

race_write_int(db, pos, v) == WriteFixed(db, pos, v, 4)

race_write_long(db, pos, v) == WriteFixed(db, pos, v, 8)

\* int race_write_string(databuf_t *db, int pos, char *s, int len)
race_write_string(db, pos, s, len) ==
  IF race_check_pos(db, pos + len + 2)
  THEN CodecResult([db EXCEPT !.buf = PutBytes(db, pos, BE(len, 2) \o SubSeq(s, 1, len)),
                              !.pos = pos + 2 + len], pos + 2 + len, 0)
  ELSE CodecResult(db, 0, 0)

\* a fixed width peek of n bytes at pos: db->pos stays
PeekFixed(db, pos, n) ==
  IF race_check_pos(db, pos + n - 1)
  THEN CodecResult(db, pos + n, SVal(BytesAt(db, pos, n)))
  ELSE CodecResult(db, 0, 0)

\* a fixed width read of n bytes at pos: db->pos = pos + n
ReadFixed(db, pos, n) ==
  IF race_check_pos(db, pos + n - 1)
  THEN CodecResult([db EXCEPT !.pos = pos + n], pos + n, SVal(BytesAt(db, pos, n)))
  ELSE CodecResult(db, 0, 0)

race_peek_short(db, pos) == PeekFixed(db, pos, 2)

race_read_short(db, pos) == ReadFixed(db, pos, 2)

race_read_int(db, pos) == ReadFixed(db, pos, 4)

race_read_long(db, pos) == ReadFixed(db, pos, 8)

Min(a, b) == IF a < b THEN a ELSE b

\* the idiom pos = race_write_xxx(db, pos, v) and pos = race_read_xxx(db, pos, &v):
\* the call at the position the previous call returned
WShort(w, v) == race_write_short(w.db, w.pos, v)
WInt(w, v) == race_write_int(w.db, w.pos, v)
WLong(w, v) == race_write_long(w.db, w.pos, v)
WString(w, str) == race_write_string(w.db, w.pos, str, Len(str))
RShort(r) == race_read_short(r.db, r.pos)
RInt(r) == race_read_int(r.db, r.pos)
RLong(r) == race_read_long(r.db, r.pos)

\* what a string read leaves in *s or dest when it does not store into it
Untouched == <<-1>>

\* race_read_strncpy after the length, without the db->pos -= 2 of the
\* truncated string
strncpy_after_no_rollback(r, max_len) ==
  IF r.v > 0
  THEN IF race_check_pos(r.db, r.pos + r.v)
       THEN CodecResult([r.db EXCEPT !.pos = r.pos + r.v], r.pos + r.v,
                        BytesAt(r.db, r.pos, Min(r.v, max_len - 1)))
       ELSE CodecResult(r.db, 0, Untouched)
  ELSE IF r.v = 0
  THEN CodecResult([r.db EXCEPT !.pos = r.pos], r.pos, <<>>)
  ELSE CodecResult(r.db, 0, Untouched)

\* int race_read_strncpy(databuf_t *db, int pos, char *dest, int max_len);
\* v is the string copied into dest, Untouched when dest is not written
StrncpyAfter(r, max_len) ==
  IF r.v > 0
  THEN IF race_check_pos(r.db, r.pos + r.v)
       THEN CodecResult([r.db EXCEPT !.pos = r.pos + r.v], r.pos + r.v,
                        BytesAt(r.db, r.pos, Min(r.v, max_len - 1)))
       ELSE CodecResult([r.db EXCEPT !.pos = r.db.pos - 2], 0, Untouched)
  ELSE IF r.v = 0
  THEN CodecResult([r.db EXCEPT !.pos = r.pos], r.pos, <<>>)
  ELSE CodecResult(r.db, 0, Untouched)

race_read_strncpy(db, pos, max_len) ==
  IF race_check_pos(db, pos + 2)
  THEN StrncpyAfter(race_read_short(db, pos), max_len)
  ELSE CodecResult(db, 0, Untouched)

\* int race_read_strdup(databuf_t *db, int pos, char **s); v is the string *s
\* points to, Untouched when *s is not assigned
StrdupAfter(r) ==
  IF r.v > 0
  THEN IF race_check_pos(r.db, r.pos + r.v)
       THEN CodecResult([r.db EXCEPT !.pos = r.pos + r.v], r.pos + r.v,
                        BytesAt(r.db, r.pos, r.v))
       ELSE CodecResult([r.db EXCEPT !.pos = r.db.pos - 2], 0, Untouched)
  ELSE IF r.v = 0
  THEN CodecResult([r.db EXCEPT !.pos = r.pos], r.pos, <<>>)
  ELSE CodecResult(r.db, 0, Untouched)

race_read_strdup(db, pos) ==
  IF race_check_pos(db, pos + 2)
  THEN StrdupAfter(race_read_short(db, pos))
  ELSE CodecResult(db, 0, Untouched)

\* int race_init_databuf(databuf_t *db, unsigned char *buf, int capacity)
race_init_databuf(junk, capacity) == CodecResult(Databuf(<<>>, 0, capacity, junk), 0, 0)

\* int race_write_byte(databuf_t *db, int pos, char v): the check is on pos,
\* the store at db->pos
race_write_byte(db, pos, v) ==
  IF race_check_pos(db, pos + 1)
  THEN CodecResult([db EXCEPT !.buf = PutBytes(db, db.pos, BE(v, 1)),
                              !.pos = db.pos + 1], db.pos + 1, 0)
  ELSE CodecResult(db, 0, 0)

\* int race_write_double(databuf_t *db, int pos, double v); v is the 64 bit
\* word of the double
race_write_double(db, pos, v) == WriteFixed(db, pos, v, 8)

race_write_empty_string(db, pos) == race_write_short(db, pos, 0)

\* int race_peek_byte(databuf_t *db, int pos, char *v)
race_peek_byte(db, pos) ==
  IF race_check_pos(db, pos)
  THEN CodecResult(db, pos + 1, SVal(BytesAt(db, pos, 1)))
  ELSE CodecResult(db, 0, 0)

\* int race_read_byte(databuf_t *db, int pos, char *v): with v given,
\* *v = db->buf[pos++] and then db->pos = pos + 1
race_read_byte(db, pos, with_v) ==
  IF race_check_pos(db, pos)
  THEN IF with_v
       THEN CodecResult([db EXCEPT !.pos = pos + 2], pos + 2, SVal(BytesAt(db, pos, 1)))
       ELSE CodecResult([db EXCEPT !.pos = pos + 1], pos + 1, 0)
  ELSE CodecResult(db, 0, 0)

race_peek_int(db, pos) == PeekFixed(db, pos, 4)

race_peek_long(db, pos) == PeekFixed(db, pos, 8)

\* the doubles are read as the 64 bit word they are stored as
race_peek_double(db, pos) == PeekFixed(db, pos, 8)

race_read_double(db, pos) == ReadFixed(db, pos, 8)

RStrncpy(r, max_len) == race_read_strncpy(r.db, r.pos, max_len)

(***************************************************************************)
(* The codec called by an application, as test.c calls it: any call at any *)
(* position of a small buffer                                              *)
(***************************************************************************)
CodecCap == 10     \* capacity of the buffer
MaxCodecOps == 2   \* codec calls after race_init_databuf
MaxDest == 8       \* sizeof the destination of race_read_strncpy

Positions == 0 .. CodecCap
CodecShorts == {4386, -2}
CodecInts == {287454020, -2}
CodecStrings == {<< >>, <<98, 108>>}
DestSizes == {2, MaxDest}

FixedWrites == {"race_write_short", "race_write_int", "race_write_long", "race_write_double"}
FixedPeeks == {"race_peek_short", "race_peek_int", "race_peek_long", "race_peek_double"}
FixedReads == {"race_read_short", "race_read_int", "race_read_long", "race_read_double"}
StringReads == {"race_read_strncpy", "race_read_strdup"}

\* the bytes a fixed width call covers
Width(op) ==
  IF op \in {"race_write_short", "race_peek_short", "race_read_short"} THEN 2
  ELSE IF op \in {"race_write_int", "race_peek_int", "race_read_int"} THEN 4
  ELSE 8

\* the values an application writes with op
ValuesOf(op) == IF Width(op) = 2 THEN CodecShorts ELSE CodecInts

WriteCall(op, db, pos, v) ==
  IF op = "race_write_short" THEN race_write_short(db, pos, v)
  ELSE IF op = "race_write_int" THEN race_write_int(db, pos, v)
  ELSE IF op = "race_write_long" THEN race_write_long(db, pos, v)
  ELSE race_write_double(db, pos, v)

PeekCall(op, db, pos) ==
  IF op = "race_peek_short" THEN race_peek_short(db, pos)
  ELSE IF op = "race_peek_int" THEN race_peek_int(db, pos)
  ELSE IF op = "race_peek_long" THEN race_peek_long(db, pos)
  ELSE race_peek_double(db, pos)

ReadCall(op, db, pos) ==
  IF op = "race_read_short" THEN race_read_short(db, pos)
  ELSE IF op = "race_read_int" THEN race_read_int(db, pos)
  ELSE IF op = "race_read_long" THEN race_read_long(db, pos)
  ELSE race_read_double(db, pos)

StringReadCall(op, db, pos, max_len) ==
  IF op = "race_read_strncpy" THEN race_read_strncpy(db, pos, max_len)
  ELSE race_read_strdup(db, pos)

\* the n bytes from lo on are not all inside the buffer
Oob(db, lo, n) == n > 0 /\ (lo < 0 \/ lo + n > db.capacity)

\* the record of a call: v and str are the value and the string it was given,
\* out and outs the value and the string it stored for the caller
Called(op, pos, v, str, r, lo, n) ==
  /\ cn < MaxCodecOps
  /\ cn' = cn + 1
  /\ cdb' = r.db
  /\ coob' = (coob \/ Oob(cdb, lo, n))
  /\ clast' = [op |-> op, pos |-> pos, v |-> v, str |-> str, pre |-> cdb,
               ret |-> r.pos,
               out |-> IF op \in StringReads THEN 0 ELSE r.v,
               outs |-> IF op \in StringReads THEN r.v ELSE << >>]
  /\ UNCHANGED <<hvars, evars>>

CodecReset ==
  \E r \in {race_reset_databuf(cdb)} : Called("race_reset_databuf", 0, 0, << >>, r, 0, 0)

CodecWriteByte(pos, v) ==
  \E r \in {race_write_byte(cdb, pos, v)} :
     Called("race_write_byte", pos, v, << >>, r, cdb.pos, IF r.pos = 0 THEN 0 ELSE 1)

CodecWriteFixed(op, pos, v) ==
  \E r \in {WriteCall(op, cdb, pos, v)} :
     Called(op, pos, v, << >>, r, pos, IF r.pos = 0 THEN 0 ELSE Width(op))

CodecWriteString(pos, str) ==
  \E r \in {race_write_string(cdb, pos, str, Len(str))} :
     Called("race_write_string", pos, 0, str, r, pos, IF r.pos = 0 THEN 0 ELSE Len(str) + 2)

CodecSetShort(pos, v) ==
  \E r \in {CodecResult(race_set_short(cdb, pos, v), 0, 0)} :
     Called("race_set_short", pos, v, << >>, r, pos, 2)

CodecPeekByte(pos) ==
  \E r \in {race_peek_byte(cdb, pos)} :
     Called("race_peek_byte", pos, 0, << >>, r, pos, IF r.pos = 0 THEN 0 ELSE 1)

CodecPeekFixed(op, pos) ==
  \E r \in {PeekCall(op, cdb, pos)} :
     Called(op, pos, 0, << >>, r, pos, IF r.pos = 0 THEN 0 ELSE Width(op))

\* with_v: the caller passes a place for the byte, else NULL
CodecReadByte(pos, with_v) ==
  \E r \in {race_read_byte(cdb, pos, with_v)} :
     Called("race_read_byte", pos, IF with_v THEN 1 ELSE 0, << >>, r, pos,
            IF r.pos = 0 \/ ~with_v THEN 0 ELSE 1)

CodecReadFixed(op, pos) ==
  \E r \in {ReadCall(op, cdb, pos)} :
     Called(op, pos, 0, << >>, r, pos, IF r.pos = 0 THEN 0 ELSE Width(op))

\* a string read covers the length and, when it succeeds, the characters
CodecReadString(op, pos, max_len) ==
  \E r \in {StringReadCall(op, cdb, pos, max_len)} :
     Called(op, pos, max_len, << >>, r, pos,
            IF ~race_check_pos(cdb, pos + 2) THEN 0
            ELSE IF r.pos = 0 THEN 2 ELSE r.pos - pos)

\* race_init_databuf on an array of CodecCap bytes that hold junk (0xff)
InitCodec ==
  /\ HInit
  /\ EIdle
  /\ cdb \in {race_init_databuf(junk, CodecCap).db : junk \in {255}}
  /\ clast = [op |-> "race_init_databuf", pos |-> 0, v |-> 0, str |-> << >>, pre |-> cdb,
              ret |-> 0, out |-> 0, outs |-> << >>]
  /\ coob = FALSE
  /\ cn = 0

NextCodec ==
  \/ CodecReset
  \/ \E pos \in Positions : CodecWriteByte(pos, 65)
  \/ \E op \in FixedWrites, pos \in Positions : \E v \in ValuesOf(op) :
        CodecWriteFixed(op, pos, v)
  \/ \E pos \in Positions, str \in CodecStrings : CodecWriteString(pos, str)
  \/ \E pos \in Positions, v \in CodecShorts : CodecSetShort(pos, v)
  \/ \E pos \in Positions : CodecPeekByte(pos)
  \/ \E op \in FixedPeeks, pos \in Positions : CodecPeekFixed(op, pos)
  \/ \E pos \in Positions, with_v \in BOOLEAN : CodecReadByte(pos, with_v)
  \/ \E op \in FixedReads, pos \in Positions : CodecReadFixed(op, pos)
  \/ \E op \in StringReads, pos \in Positions, max_len \in DestSizes :
        CodecReadString(op, pos, max_len)

SpecCodec == InitCodec /\ [][NextCodec]_vars

(***************************************************************************)
(* messages.c: the message layer                                           *)
(***************************************************************************)
REQUEST_MSG == 1
ACCEPT_MSG == 2
REJECT_MSG == 3
DATA_MSG == 4
STOP_MSG == 5
PAUSE_MSG == 6
RESUME_MSG == 7
SERVER_ID == 0
NO_ID == -1
NO_FIXED_MSG_LEN == 0
MAX_MSG_LEN == 2048
MAX_SCHEMA_LEN == 128
HEADER_LEN == 16
ACCEPT_LEN == HEADER_LEN + 20
REJECT_LEN == HEADER_LEN + 4
STOP_MSG_LEN == HEADER_LEN
PAUSE_MSG_LEN == HEADER_LEN
RESUME_MSG_LEN == HEADER_LEN

\* static int is_msg (databuf_t* db, short expect_id, int expect_len)
is_msg(db, expect_id, expect_len) ==
  LET read_len == db.pos
  IN  /\ read_len > 0
      /\ (expect_len = NO_FIXED_MSG_LEN \/ read_len = expect_len)
      /\ race_peek_short(db, 0).v = expect_id

\* static int write_header (databuf_t* db, short msg_id, int msg_len, int sender);
\* now is what race_epoch_millis() returns
write_header(db, msg_id, msg_len, sender, now) ==
  WLong(WInt(WShort(WShort(race_reset_databuf(db), msg_id), msg_len), sender), now)

\* a variant of set_msg_len that stores the length over the message type
set_msg_len_at_start(db, msg_len) == race_set_short(db, 0, msg_len)

\* static void set_msg_len (databuf_t* db, short msg_len)
set_msg_len(db, msg_len) == race_set_short(db, 2, msg_len)

\* what read_header and the message readers give back
MsgResult(db, pos, sender, time, err) ==
  [db |-> db, pos |-> pos, sender |-> sender, time |-> time, err |-> err]

\* static int read_header (databuf_t* db, short id, int check_len, int* sender,
\*                         epoch_millis_t* time_millis, const char** err_msg)
HeaderFields(r3, r4) == MsgResult(r4.db, r4.pos, r3.v, r4.v, "")

HeaderAfterLen(r3) == HeaderFields(r3, RLong(r3))

HeaderAfterId(r2, read_len) ==
  IF r2.v = read_len THEN HeaderAfterLen(RInt(r2))
  ELSE MsgResult(r2.db, 0, 0, 0,
                 "inconsistent header (message length does not match received bytes)")

HeaderAfterPeek(r1, id, read_len) ==
  IF r1.v = id THEN HeaderAfterId(RShort(r1), read_len)
  ELSE MsgResult(r1.db, 0, 0, 0, "wrong message type")

\* a variant of read_header that looks at the message type before the length
read_header_type_first(db, id, check_len) ==
  IF race_peek_short(db, 0).v # id
  THEN MsgResult(race_read_short(db, 0).db, 0, 0, 0, "wrong message type")
  ELSE IF check_len = NO_FIXED_MSG_LEN \/ db.pos = check_len
  THEN HeaderAfterPeek(race_read_short(db, 0), id, db.pos)
  ELSE MsgResult(db, 0, 0, 0, "wrong message length")

read_header(db, id, check_len) ==
  IF check_len = NO_FIXED_MSG_LEN \/ db.pos = check_len
  THEN HeaderAfterPeek(race_read_short(db, 0), id, db.pos)
  ELSE MsgResult(db, 0, 0, 0, "wrong message length")

\* int race_write_request (db, flags, schema, sim_millis, interval_millis)
WithMsgLen(p) == CodecResult(set_msg_len(p.db, p.pos), p.pos, 0)

race_write_request(db, flags, schema, sim_millis, interval_millis, now) ==
  WithMsgLen(WInt(WLong(WString(WInt(
    write_header(db, REQUEST_MSG, NO_FIXED_MSG_LEN, NO_ID, now),
    flags), schema), sim_millis), interval_millis))

race_is_request(db) == is_msg(db, REQUEST_MSG, NO_FIXED_MSG_LEN)

\* int race_read_request (...): pos, the header's send time and the fields
RequestFields(h, r1, r2, r3, r4) ==
  [db |-> r4.db, pos |-> r4.pos, time_sent |-> h.time, err |-> h.err,
   flags |-> r1.v, schema |-> r2.v, sim_millis |-> r3.v, interval_millis |-> r4.v]

RequestAfter3(h, r1, r2, r3) == RequestFields(h, r1, r2, r3, RInt(r3))
RequestAfter2(h, r1, r2) == RequestAfter3(h, r1, r2, RLong(r2))
RequestAfter1(h, r1, max_schema_len) == RequestAfter2(h, r1, RStrncpy(r1, max_schema_len))

RequestAfterHeader(h, max_schema_len) ==
  IF h.pos > 0
  THEN RequestAfter1(h, RInt(h), max_schema_len)
  ELSE [db |-> h.db, pos |-> 0, time_sent |-> 0, err |-> h.err,
        flags |-> 0, schema |-> <<>>, sim_millis |-> 0, interval_millis |-> 0]

race_read_request(db, max_schema_len) ==
  RequestAfterHeader(read_header(db, REQUEST_MSG, NO_FIXED_MSG_LEN), max_schema_len)

\* a variant of race_write_accept with the last two fields in the other order
race_write_accept_swapped(db, flags, sim_millis, interval_millis, client_id, now) ==
  WInt(WInt(WLong(WInt(
    write_header(db, ACCEPT_MSG, ACCEPT_LEN, SERVER_ID, now),
    flags), sim_millis), client_id), interval_millis)

\* int race_write_accept (db, flags, sim_millis, interval_millis, client_id)
race_write_accept(db, flags, sim_millis, interval_millis, client_id, now) ==
  WInt(WInt(WLong(WInt(
    write_header(db, ACCEPT_MSG, ACCEPT_LEN, SERVER_ID, now),
    flags), sim_millis), interval_millis), client_id)

race_is_accept(db) == is_msg(db, ACCEPT_MSG, ACCEPT_LEN)

\* int race_read_accept (db, flags, sim_millis, interval_millis, client_id, err_msg)
AcceptFields(h, r1, r2, r3, r4) ==
  [db |-> r4.db, pos |-> r4.pos, err |-> h.err, flags |-> r1.v,
   sim_millis |-> r2.v, interval_millis |-> r3.v, client_id |-> r4.v]

AcceptAfter3(h, r1, r2, r3) == AcceptFields(h, r1, r2, r3, RInt(r3))
AcceptAfter2(h, r1, r2) == AcceptAfter3(h, r1, r2, RInt(r2))
AcceptAfter1(h, r1) == AcceptAfter2(h, r1, RLong(r1))

AcceptAfterHeader(h) ==
  IF h.pos > 0
  THEN AcceptAfter1(h, RInt(h))
  ELSE [db |-> h.db, pos |-> 0, err |-> h.err, flags |-> 0,
        sim_millis |-> 0, interval_millis |-> 0, client_id |-> 0]

race_read_accept(db) == AcceptAfterHeader(read_header(db, ACCEPT_MSG, ACCEPT_LEN))

\* a variant of race_write_reject that leaves the reason out
race_write_reject_blank(db, reason, now) ==
  WInt(write_header(db, REJECT_MSG, REJECT_LEN, SERVER_ID, now), reason - reason)

\* int race_write_reject (databuf_t* db, int reason)
race_write_reject(db, reason, now) ==
  WInt(write_header(db, REJECT_MSG, REJECT_LEN, SERVER_ID, now), reason)

race_is_reject(db) == is_msg(db, REJECT_MSG, REJECT_LEN)

\* int race_read_reject (databuf_t* db, int* reason, const char** err_msg)
RejectFields(h, r1) == [db |-> r1.db, pos |-> r1.pos, err |-> h.err, reason |-> r1.v]

RejectAfterHeader(h) ==
  IF h.pos > 0 THEN RejectFields(h, RInt(h))
  ELSE [db |-> h.db, pos |-> 0, err |-> h.err, reason |-> 0]

race_read_reject(db) == RejectAfterHeader(read_header(db, REJECT_MSG, REJECT_LEN))

race_write_stop(db, sender_id, now) ==
  write_header(db, STOP_MSG, STOP_MSG_LEN, sender_id, now)

race_is_stop(db) == is_msg(db, STOP_MSG, STOP_MSG_LEN)

race_read_stop(db) == read_header(db, STOP_MSG, STOP_MSG_LEN)

race_write_pause(db, sender_id, now) ==
  write_header(db, PAUSE_MSG, PAUSE_MSG_LEN, sender_id, now)

race_is_pause(db) == is_msg(db, PAUSE_MSG, PAUSE_MSG_LEN)

race_read_pause(db) == read_header(db, PAUSE_MSG, PAUSE_MSG_LEN)

race_write_resume(db, sender_id, now) ==
  write_header(db, RESUME_MSG, RESUME_MSG_LEN, sender_id, now)

race_is_resume(db) == is_msg(db, RESUME_MSG, RESUME_MSG_LEN)

race_read_resume(db) == read_header(db, RESUME_MSG, RESUME_MSG_LEN)

race_is_data(db) == is_msg(db, DATA_MSG, 0)

\* length will be set by race_end_write_data
race_begin_write_data(db, sender_id, now) ==
  write_header(db, DATA_MSG, 0, sender_id, now)

\* int race_end_write_data (databuf_t* db, int pos)
race_end_write_data(db, pos) ==
  CodecResult(IF pos > 0 THEN race_set_short(db, 2, pos) ELSE db, pos, 0)

race_read_data_header(db) == read_header(db, DATA_MSG, NO_FIXED_MSG_LEN)

(***************************************************************************)
(* race.c: the connection engine.  The peer and the network are the        *)
(* environment: any datagram of Incoming may arrive from any address, and  *)
(* a system call that can fail may fail.                                   *)
(***************************************************************************)
DATA_SENDER == 1
DATA_RECEIVER == 2
MAX_TIME_DIFF == 1000
NO_MORE_CONNECTIONS == 1
UNKNOWN_DATA == 2
UNSUPPORTED_INTERVAL == 4

\* flags & bit, for a mask of one bit
HasFlag(flags, bit) == (flags \div bit) % 2 = 1

\* databuf_t *race_create_databuf(size_t size): malloc leaves the bytes as they are
race_create_databuf(size, junk) == Databuf(<<>>, 0, size, junk)

\* the buffer with junk as the value a never written byte has when it is used
WithJunk(db, junk) == [db EXCEPT !.junk = junk]

\* #define DATABUF(len) { (unsigned char*)alloca(len), 0, len }
DATABUF(len, junk) == Databuf(<<>>, 0, len, junk)

\* the bytes sendto(fd, db->buf, len, ...) puts on the wire
Wire(db, len) == BytesAt(db, 0, len)

\* nread = recvfrom(fd, db->buf, db->capacity, ...); db->pos = nread
recvfrom(db, d) == [db EXCEPT !.buf = PutBytes(db, 0, d), !.pos = Len(d)]

\* one sendto call: the destination, the bytes, and whether it succeeded
Sendto(to, msg, ok) == [to |-> to, msg |-> msg, ok |-> ok]

NoReport == "none"

\* calloc'ed / not yet allocated endpoint records
NoLocal ==
  [mem |-> "null", fd |-> -1, id |-> 0, interval_millis |-> 0,
   is_non_blocking |-> FALSE, db |-> Databuf(<<>>, 0, 0, 0)]

NoRemote ==
  [mem |-> "null", addr |-> 0, id |-> 0, time_request |-> 0, time_last |-> 0,
   is_stopped |-> FALSE]

\* a variant of set_time_diff that adapts at a difference of MAX_TIME_DIFF as well
set_time_diff_at_limit(ctx, sim_millis, now) ==
  LET time_diff == now - sim_millis
      labs == IF time_diff < 0 THEN -time_diff ELSE time_diff
  IN  IF labs >= MAX_TIME_DIFF THEN [ctx EXCEPT !.time_diff = time_diff] ELSE ctx

\* static void set_time_diff (local_context_t* context, epoch_millis_t sim_millis)
set_time_diff(ctx, sim_millis, now) ==
  LET time_diff == now - sim_millis
      labs == IF time_diff < 0 THEN -time_diff ELSE time_diff
  IN  IF labs > MAX_TIME_DIFF THEN [ctx EXCEPT !.time_diff = time_diff] ELSE ctx

\* the application's write_data callback: it returns a negative position
\* ("neg"), 0 ("zero"), or writes a payload and returns the position behind
\* it ("track")
write_data(db, pos, wd) ==
  IF wd = "neg" THEN CodecResult(db, -1, 0)
  ELSE IF wd = "zero" THEN CodecResult(db, 0, 0)
  ELSE race_write_short(db, pos, 7)

\* what a sender operation gives back: the local buffer after it, the sendto
\* calls it made, its return value and what it reported
SendResult(db, sends, rv, rep) ==
  [db |-> db, sends |-> sends, ret |-> rv, report |-> rep]

\* static bool send_assembled_message (context, local, remote)
send_assembled_message(loc, rem, ok) ==
  SendResult(loc.db, <<Sendto(rem.addr, Wire(loc.db, loc.db.pos), ok)>>, ok,
             IF ok THEN NoReport ELSE "error: sending message failed")

\* a variant of send_data that takes a position of 0 for a failure as well
send_data_warn_on_zero(loc, rem, wd, ok, now) ==
  LET b == race_begin_write_data(loc.db, loc.id, now)
      w == write_data(b.db, b.pos, wd)
  IN  IF w.pos > 0
      THEN LET e == race_end_write_data(w.db, w.pos)
           IN  SendResult(e.db, <<Sendto(rem.addr, Wire(e.db, e.pos), ok)>>, ok,
                          IF ok THEN NoReport
                          ELSE "error: sending track data failed")
      ELSE SendResult(w.db, <<>>, TRUE, "warning: no data payload written")

\* static bool send_data (context, local, remote)
send_data(loc, rem, wd, ok, now) ==
  LET b == race_begin_write_data(loc.db, loc.id, now)
      w == write_data(b.db, b.pos, wd)
  IN  IF w.pos >= 0
      THEN LET e == race_end_write_data(w.db, w.pos)
           IN  IF e.pos > 0
               THEN SendResult(e.db, <<Sendto(rem.addr, Wire(e.db, e.pos), ok)>>, ok,
                               IF ok THEN NoReport
                               ELSE "error: sending track data failed")
               ELSE SendResult(e.db, <<>>, TRUE, NoReport)
      ELSE SendResult(w.db, <<>>, TRUE, "warning: no data payload written")

\* a variant of send_stop that sends nothing
send_stop_skipped(loc, rem, ok, now) == SendResult(loc.db, <<>>, TRUE, NoReport)

\* static void send_stop (context, local, remote)
send_stop(loc, rem, ok, now) ==
  LET w == race_write_stop(loc.db, loc.id, now)
  IN  SendResult(w.db, <<Sendto(rem.addr, Wire(w.db, w.db.pos), ok)>>, TRUE,
                 IF ok THEN NoReport ELSE "error: sending local stop failed")

\* variants of the test that accept a message one millisecond late, or any
late_by_two(send_time, time_last) == send_time + 1 < time_last

never_late(send_time, time_last) == send_time < 0 /\ time_last < 0

\* send_time < remote->time_last
out_of_order(send_time, time_last) == send_time < time_last

\* a variant of the test that takes every sender for the remote
is_from_any(remote_id, rem) == remote_id >= 0 \/ rem.id >= 0

\* remote_id == remote->id
is_from_remote(remote_id, rem) == remote_id = rem.id

\* what receive_message does: the remote record after it, the send time it
\* handed to read_data (if any), its report and the callback it invoked
ReadData(send_time) == <<"read_data", send_time>>

RecvResult(rem, read, rep, cb) ==
  [remote |-> rem, report |-> rep,
   calls |-> [i \in DOMAIN read |-> ReadData(read[i])] \o [i \in DOMAIN cb |-> <<cb[i], 0>>]]

\* static void receive_message (context, local, remote) for a datagram d from
\* the address src; recvfrom stores the source address through remote->addr
receive_message(ctx, rem, src, d, junk) ==
  LET db == recvfrom(DATABUF(MAX_MSG_LEN, junk), d)
      r0 == [rem EXCEPT !.addr = src]
  IN  IF race_is_stop(db)
      THEN LET h == race_read_stop(db)
           IN  IF h.pos # 0 /\ is_from_remote(h.sender, rem)
               THEN RecvResult([r0 EXCEPT !.is_stopped = TRUE], <<>>, NoReport, <<>>)
               ELSE RecvResult(r0, <<>>, NoReport, <<>>)
      ELSE IF race_is_data(db)
      THEN IF HasFlag(ctx.flags, DATA_RECEIVER)
           THEN LET h == race_read_data_header(db)
                IN  IF h.pos = 0
                    THEN RecvResult(r0, <<>>, "error: received malformed message", <<>>)
                    ELSE IF ~is_from_remote(h.sender, rem)
                    THEN RecvResult(r0, <<>>,
                                    "warning: ignoring message from unknown remote", <<>>)
                    ELSE IF out_of_order(h.time, rem.time_last)
                    THEN RecvResult(r0, <<>>,
                                    "warning: ignoring out-of-order message", <<>>)
                    ELSE RecvResult([r0 EXCEPT !.time_last = h.time], <<h.time>>,
                                    NoReport, <<>>)
           ELSE RecvResult(r0, <<>>, "warning: local is ignoring track messages", <<>>)
      ELSE IF race_is_pause(db)
      THEN LET h == race_read_pause(db)
           IN  IF h.pos # 0 /\ is_from_remote(h.sender, rem)
               THEN RecvResult(r0, <<>>, NoReport, <<"connection_paused">>)
               ELSE RecvResult(r0, <<>>, NoReport, <<>>)
      ELSE IF race_is_resume(db)
      THEN LET h == race_read_resume(db)
           IN  IF h.pos # 0 /\ is_from_remote(h.sender, rem)
               THEN RecvResult(r0, <<>>, NoReport, <<"connection_resumed">>)
               ELSE RecvResult(r0, <<>>, NoReport, <<>>)
      ELSE RecvResult(r0, <<>>, "warning: received unknown message", <<>>)

\* the application's check_request callback: it returns cr.reject and, when
\* cr.mutate, stores its own simulation time and interval through the pointers
AppSimMillis == 1
AppIntervalMillis == 1000

check_request(sim_millis, interval_millis, cr) ==
  [reject          |-> cr.reject,
   sim_millis      |-> IF cr.mutate THEN AppSimMillis ELSE sim_millis,
   interval_millis |-> IF cr.mutate THEN AppIntervalMillis ELSE interval_millis]

\* a callback or sender operation in the log of calls
Call(op) == <<op, 0, 0, 0>>

CheckCall(chk) == <<"check_request", chk.reject, chk.sim_millis, chk.interval_millis>>

\* remote_id = n_remote++, a variant
post_increment(nr) == nr

\* remote_id = ++n_remote
pre_increment(nr) == nr + 1

\* what wait_for_request gives back: the context, the local endpoint and the
\* counter after it, the remote it returns (NoRemote for NULL), its sendto
\* calls, its report and its callbacks
WaitResult(ctx, loc, nr, rem, sends, rep, cbs) ==
  [context |-> ctx, local |-> loc, n_remote |-> nr, remote |-> rem,
   sends |-> sends, report |-> rep, calls |-> cbs]

\* static remote_endpoint_t* wait_for_request (context, local), from the point
\* where recvfrom has returned the datagram d from the address src
wait_for_request(ctx, loc, nr, src, d, cr, ok, now) ==
  LET db == recvfrom(loc.db, d)
      rq == race_read_request(db, MAX_SCHEMA_LEN)
      l1 == [loc EXCEPT !.is_non_blocking = FALSE, !.db = rq.db]
  IN  IF rq.pos = 0
      THEN WaitResult(ctx, l1, nr, NoRemote, <<>>,
                      "error: error reading remote request", <<>>)
      ELSE LET chk == check_request(rq.sim_millis, rq.interval_millis, cr)
           IN  IF chk.reject # 0
               THEN LET w == race_write_reject(rq.db, chk.reject, now)
                    IN  WaitResult(ctx, [l1 EXCEPT !.db = w.db], nr, NoRemote,
                                   <<Sendto(src, Wire(w.db, w.db.pos), ok)>>,
                                   IF ok THEN "info: remote rejected"
                                   ELSE "error: sending local response failed",
                                   <<CheckCall(chk)>>)
               ELSE LET l2 == [l1 EXCEPT !.interval_millis = chk.interval_millis]
                        c2 == set_time_diff(ctx, chk.sim_millis, now)
                        remote_id == pre_increment(nr)
                        w == race_write_accept(rq.db, ctx.flags, chk.sim_millis,
                                               l2.interval_millis, remote_id, now)
                    IN  WaitResult(c2, [l2 EXCEPT !.db = w.db], remote_id,
                                   IF ok
                                   THEN [mem |-> "alloc", addr |-> src, id |-> remote_id,
                                         time_request |-> rq.time_sent,
                                         time_last |-> rq.time_sent,
                                         is_stopped |-> FALSE]
                                   ELSE NoRemote,
                                   <<Sendto(src, Wire(w.db, w.db.pos), ok)>>,
                                   IF ok THEN NoReport
                                   ELSE "error: sending local accept failed",
                                   <<CheckCall(chk)>>)

\* the application's write_request callback: context->write_request(db,0)
write_request(ctx, db, now) ==
  race_write_request(db, ctx.flags, <<115>>, now, 2000, now)

\* context->info("server accept: client_id=%x, sim_millis=..., interval=...")
AcceptInfo(a) == <<"info: server accept", a.client_id, a.sim_millis, a.interval_millis>>

\* context->info("server reject, reason: %x\n", reason)
RejectInfo(r) == <<"info: server reject", r.reason, 0, 0>>

\* what wait_for_response gives back: the context and the two endpoint records
\* after it, its return value, its report and its info callbacks
ResponseResult(ctx, loc, rem, rv, rep, cbs) ==
  [context |-> ctx, local |-> loc, remote |-> rem, ret |-> rv, report |-> rep,
   calls |-> cbs]

\* static bool wait_for_response (context, local, remote), from the point
\* where recvfrom has returned the datagram d from the address src
wait_for_response(ctx, loc, rem, src, d, now) ==
  LET db == recvfrom(loc.db, d)
      l1 == [loc EXCEPT !.db = db]
      r0 == [rem EXCEPT !.addr = src]
  IN  IF race_is_accept(db)
      THEN LET a == race_read_accept(db)
           IN  IF a.pos <= 0
               THEN ResponseResult(ctx, l1, r0, FALSE,
                                   "error: error reading SERVER_RESPONSE", <<>>)
               ELSE ResponseResult(set_time_diff(ctx, a.sim_millis, now),
                                   [l1 EXCEPT !.interval_millis = a.interval_millis],
                                   r0, TRUE, NoReport, <<AcceptInfo(a)>>)
      ELSE IF race_is_reject(db)
      THEN LET r == race_read_reject(db)
           IN  IF r.pos <= 0
               THEN ResponseResult(ctx, l1, r0, FALSE,
                                   "error: error reading SERVER_REJECT", <<>>)
               ELSE ResponseResult(ctx, l1, r0, FALSE, "info: server reject",
                                   <<RejectInfo(r)>>)
      ELSE ResponseResult(ctx, l1, r0, FALSE, "error: no valid server response", <<>>)

(***************************************************************************)
(* The environment of an endpoint                                          *)
(***************************************************************************)
NAddrs == 2        \* peer addresses
MaxTime == 1       \* send times of incoming messages: 0 .. MaxTime
MaxPeerId == 2     \* sender ids of incoming messages: 0 .. MaxPeerId
MaxRemotes == 2    \* requests accepted by one server endpoint
MaxTicks == 1      \* send_data calls of one sender loop
MaxRead == 2       \* callbacks of the receiver on one connection
Clock0 == 1000     \* race_epoch_millis() when the endpoint starts
MaxClock == 1001   \* and the last value it takes
NSessionAddrs == 1 \* addresses that send to a running connection
MaxRequests == 2   \* requests one client sends

Addrs == 1 .. NAddrs
SessionAddrs == 1 .. NSessionAddrs
ServerAddr == 1
ConnectIntervals == {0, 1000}
Times == 0 .. MaxTime
PeerIds == 0 .. MaxPeerId
JunkBytes == {0, 255}
ServerFlags == {DATA_SENDER + DATA_RECEIVER}
WriteDataChoices == {"neg", "zero", "track"}
CheckChoices == {[reject |-> r, mutate |-> m] : r \in {0, UNKNOWN_DATA}, m \in BOOLEAN}

\* a buffer of the peer, all zero
PeerBuf == Databuf(<<>>, 0, MAX_MSG_LEN, 0)

\* the datagrams a peer puts on the wire with the writers of messages.c
RequestDatagram(t) ==
  LET w == race_write_request(PeerBuf, DATA_SENDER + DATA_RECEIVER, <<115>>, 0, 2000, t)
  IN  Wire(w.db, w.pos)

DataDatagram(id, t) ==
  LET b == race_begin_write_data(PeerBuf, id, t)
      e == race_end_write_data(race_write_short(b.db, b.pos, 7).db, b.pos + 2)
  IN  Wire(e.db, e.pos)

StopDatagram(id, t) == Wire(race_write_stop(PeerBuf, id, t).db, STOP_MSG_LEN)

PauseDatagram(id, t) == Wire(race_write_pause(PeerBuf, id, t).db, PAUSE_MSG_LEN)

ResumeDatagram(id, t) == Wire(race_write_resume(PeerBuf, id, t).db, RESUME_MSG_LEN)

AcceptDatagram(id, t) ==
  Wire(race_write_accept(PeerBuf, DATA_SENDER + DATA_RECEIVER, 0, 2000, id, t).db, ACCEPT_LEN)

RejectDatagram(reason, t) == Wire(race_write_reject(PeerBuf, reason, t).db, REJECT_LEN)

\* datagrams no writer produces: a Data message whose length field was never
\* set, a message of an unknown type, a Data message of four bytes
UnfinishedData(id) == Wire(race_begin_write_data(PeerBuf, id, 0).db, HEADER_LEN)

UnknownDatagram == Wire(write_header(PeerBuf, 9, HEADER_LEN, 0, 0).db, HEADER_LEN)

ShortData == <<0, DATA_MSG, 0, 4>>

SessionDatagrams ==
  {DataDatagram(id, t) : id \in PeerIds, t \in Times}
    \cup {StopDatagram(id, 0) : id \in PeerIds}
    \cup {UnfinishedData(1), UnknownDatagram, ShortData}

\* a Request cut behind its flags: the header states the 20 bytes that are
\* sent, the schema string and the two trailing fields are missing
TruncatedRequest(t) ==
  LET h == write_header(PeerBuf, REQUEST_MSG, HEADER_LEN + 4, NO_ID, t)
      w == WInt(h, DATA_SENDER + DATA_RECEIVER)
  IN  Wire(w.db, w.pos)

ServerIncoming == {RequestDatagram(t) : t \in Times} \cup SessionDatagrams

\* what a client finds on its socket while it waits for the response
ResponseDatagrams ==
  {AcceptDatagram(1, 0), RejectDatagram(UNKNOWN_DATA, 0), UnknownDatagram}

\* what a client finds on its socket once it is connected: the server may
\* pause and resume the connection
ClientIncoming ==
  SessionDatagrams
    \cup {PauseDatagram(id, 0) : id \in {SERVER_ID, 1}}
    \cup {ResumeDatagram(id, 0) : id \in {SERVER_ID, 1}}

Incoming == IF role = "server" THEN ServerIncoming ELSE ClientIncoming

NumCalls(op) == Cardinality({i \in DOMAIN calls : calls[i][1] = op})

(***************************************************************************)
(* race_server: the calling thread                                         *)
(***************************************************************************)
FreedRemote == [NoRemote EXCEPT !.mem = "freed"]

\* race_server up to its outer loop: initialize_local_server
InitializeLocalServer(ok) ==
  /\ pc = "race_server"
  /\ IF ok
     THEN /\ local' = [mem |-> "alloc", fd |-> 3, id |-> 0, interval_millis |-> 0,
                       is_non_blocking |-> FALSE,
                       db |-> race_create_databuf(MAX_MSG_LEN, 0)]
          /\ pc' = "outer"
          /\ report' = NoReport
          /\ UNCHANGED ret
     ELSE /\ report' = "error: failed to open server socket"
          /\ ret' = "true"
          /\ pc' = "done"
          /\ UNCHANGED local
  /\ UNCHANGED <<hvars, cvars, loop_exit, role, context, remote, n_remote, rpc, cancel_req, n_threads,
                 clock, sent, delivered, calls, accepted>>

\* while (!context->stop_local): the test of the outer loop
OuterLoop ==
  /\ pc = "outer"
  /\ IF ~context.stop_local
     THEN /\ n_remote < MaxRemotes
          /\ pc' = "wait_for_request"
          /\ remote' = NoRemote
          /\ sent' = <<>>
          /\ calls' = <<>>
     ELSE /\ pc' = "local_terminated"
          /\ UNCHANGED <<remote, sent, calls>>
  /\ report' = NoReport
  /\ UNCHANGED <<hvars, cvars, loop_exit, role, context, local, n_remote, rpc, cancel_req, n_threads,
                 clock, delivered, accepted, ret>>

\* wait_for_request when race_set_blocking fails: it returns NULL, and
\* free(remote) ends the iteration of the outer loop
WaitForRequestNotBlocking ==
  /\ pc = "wait_for_request"
  /\ local' = [local EXCEPT !.is_non_blocking = TRUE]
  /\ report' = "error: cannot put socket into blocking mode"
  /\ pc' = "outer"
  /\ UNCHANGED <<hvars, cvars, loop_exit, role, context, remote, n_remote, rpc, cancel_req, n_threads,
                 clock, sent, delivered, calls, accepted, ret>>

\* wait_for_request when recvfrom returns nread <= 0
WaitForRequestFailed ==
  /\ pc = "wait_for_request"
  /\ local' = [local EXCEPT !.is_non_blocking = FALSE]
  /\ report' = IF ~context.stop_local THEN "error: reading remote request failed"
               ELSE NoReport
  /\ pc' = "outer"
  /\ UNCHANGED <<hvars, cvars, loop_exit, role, context, remote, n_remote, rpc, cancel_req, n_threads,
                 clock, sent, delivered, calls, accepted, ret>>

\* wait_for_request when recvfrom returns the datagram d from src, with what
\* check_request does (cr) and whether the response is sent (ok); with no
\* remote, free(remote) ends the iteration of the outer loop
RequestHandled(src, d, cr, ok, junk) ==
  /\ pc = "wait_for_request"
  /\ \E r \in {wait_for_request(context, [local EXCEPT !.db = WithJunk(local.db, junk)],
                                 n_remote, src, d, cr, ok, clock)} :
         /\ context' = r.context
         /\ local' = [r.local EXCEPT !.db = WithJunk(r.local.db, 0)]
         /\ n_remote' = r.n_remote
         /\ remote' = r.remote
         /\ sent' = sent \o r.sends
         /\ calls' = calls \o r.calls
         /\ report' = r.report
         /\ accepted' = IF r.remote.mem = "alloc" THEN Append(accepted, r.remote.id)
                        ELSE accepted
         /\ pc' = IF r.remote.mem = "alloc" THEN "run_connection_threaded" ELSE "outer"
  /\ UNCHANGED <<hvars, cvars, loop_exit, role, rpc, cancel_req, n_threads, clock, delivered, ret>>

\* check_request is called, and a response sent, only for a datagram that
\* race_read_request reads
NoCheck == [reject |-> 0, mutate |-> FALSE]

WaitForRequest(src, d, junk) ==
  /\ pc = "wait_for_request"
  /\ \E rq \in {race_read_request(recvfrom(WithJunk(local.db, junk), d), MAX_SCHEMA_LEN)} :
       /\ rq.time_sent # WIDE /\ rq.sim_millis # WIDE
       /\ \E cr \in IF rq.pos = 0 THEN {NoCheck} ELSE CheckChoices,
             ok \in IF rq.pos = 0 THEN {TRUE} ELSE BOOLEAN :
               RequestHandled(src, d, cr, ok, junk)

\* local_terminated(context, local); free(local); for the client free(remote)
\* as well; then race_server returns true and race_client returns ret
LocalTerminated ==
  /\ pc = "local_terminated"
  /\ calls' = <<Call("local_terminated")>>
  /\ sent' = <<>>
  /\ delivered' = <<>>
  /\ report' = NoReport
  /\ local' = [local EXCEPT !.mem = "freed"]
  /\ remote' = IF role = "client" THEN FreedRemote ELSE remote
  /\ ret' = IF role = "server" THEN "true" ELSE ret
  /\ pc' = "done"
  /\ UNCHANGED <<hvars, cvars, loop_exit, role, context, n_remote, rpc, cancel_req, n_threads,
                 clock, accepted>>

(***************************************************************************)
(* run_connection_threaded: the calling thread                             *)
(***************************************************************************)
\* pthread_create( &receiver, NULL, receive_messages_thread, &args); when it
\* fails run_connection_threaded returns false: race_server leaves its outer
\* loop without free(remote), race_client has ret = false
PthreadCreate(ok) ==
  /\ pc = "run_connection_threaded"
  /\ IF ok
     THEN /\ rpc' = "loop"
          /\ n_threads' = n_threads + 1
          /\ pc' = "connection_started"
          /\ report' = NoReport
          /\ UNCHANGED ret
     ELSE /\ report' = "error: failed to create receiver thread"
          /\ pc' = "local_terminated"
          /\ ret' = IF role = "client" THEN "false" ELSE ret
          /\ UNCHANGED <<rpc, n_threads>>
  /\ UNCHANGED <<hvars, cvars, loop_exit, role, context, local, remote, n_remote, cancel_req,
                 clock, sent, delivered, calls, accepted>>

\* if (context->connection_started) context->connection_started()
ConnectionStarted ==
  /\ pc = "connection_started"
  /\ calls' = Append(calls, Call("connection_started"))
  /\ pc' = "loop"
  /\ report' = NoReport
  /\ UNCHANGED <<hvars, cvars, loop_exit, role, context, local, remote, n_remote, rpc, cancel_req,
                 n_threads, clock, sent, delivered, accepted, ret>>

\* race_sleep_millis: the clock the thread finds when it wakes up
race_sleep_millis(now) == IF now < MaxClock THEN now + 1 ELSE now

\* one test of the inner loop and, when it holds, one iteration
SenderLoop(wd, ok) ==
  /\ pc = "loop"
  /\ IF ~remote.is_stopped /\ ~context.stop_local
     THEN /\ NumCalls("send_data") < MaxTicks
          /\ \E s \in {send_data(local, remote, wd, ok, clock)} :
                 /\ local' = [local EXCEPT !.db = s.db]
                 /\ sent' = sent \o s.sends
                 /\ calls' = Append(calls, Call("send_data"))
                 /\ report' = s.report
                 /\ pc' = IF s.ret THEN "loop" ELSE "after_loop"
                 /\ clock' = IF s.ret THEN race_sleep_millis(clock) ELSE clock
                 /\ loop_exit' = IF s.ret THEN loop_exit ELSE "send_error"
     ELSE /\ pc' = "after_loop"
          /\ report' = NoReport
          /\ loop_exit' = IF context.stop_local /\ ~remote.is_stopped
                          THEN "stop_local" ELSE "other"
          /\ UNCHANGED <<local, sent, calls, clock>>
  /\ UNCHANGED <<hvars, cvars, role, context, remote, n_remote, rpc, cancel_req, n_threads,
                 delivered, accepted, ret>>

\* if (context->stop_local && !remote->is_stopped) { send_data; send_stop }
\* pthread_cancel(receiver); ok is whether the socket takes the two datagrams
AfterLoop(wd, ok) ==
  /\ pc = "after_loop"
  /\ IF context.stop_local /\ ~remote.is_stopped
     THEN \E s1 \in {send_data(local, remote, wd, ok, clock)} :
          \E s2 \in {send_stop([local EXCEPT !.db = s1.db], remote, ok, clock)} :
              /\ local' = [local EXCEPT !.db = s2.db]
              /\ sent' = sent \o s1.sends \o s2.sends
              /\ calls' = calls \o <<Call("send_data"), Call("send_stop")>>
              /\ report' = IF s2.report # NoReport THEN s2.report ELSE s1.report
     ELSE /\ report' = NoReport
          /\ UNCHANGED <<local, sent, calls>>
  /\ cancel_req' = TRUE
  /\ pc' = "pthread_join"
  /\ UNCHANGED <<hvars, cvars, loop_exit, role, context, remote, n_remote, rpc, n_threads,
                 clock, delivered, accepted, ret>>

\* a variant of pthread_join that does not wait for the receiver
pthread_join_no_wait ==
  /\ pc = "pthread_join"
  /\ cancel_req' = FALSE
  /\ pc' = "connection_terminated"
  /\ report' = NoReport
  /\ UNCHANGED <<hvars, cvars, loop_exit, role, context, local, remote, n_remote, rpc, n_threads,
                 clock, sent, delivered, calls, accepted, ret>>

\* pthread_join(receiver,NULL) returns once the receiver has ended
PthreadJoin ==
  /\ pc = "pthread_join"
  /\ rpc \in {"exited", "cancelled"}
  /\ rpc' = "none"
  /\ n_threads' = n_threads - 1
  /\ cancel_req' = FALSE
  /\ pc' = "connection_terminated"
  /\ report' = NoReport
  /\ UNCHANGED <<hvars, cvars, loop_exit, role, context, local, remote, n_remote,
                 clock, sent, delivered, calls, accepted, ret>>

\* if (context->connection_terminated) context->connection_terminated();
\* return true; then race_server does free(remote) and goes on with its outer
\* loop, race_client has ret = true
ConnectionTerminated ==
  /\ pc = "connection_terminated"
  /\ report' = NoReport
  /\ loop_exit' = "none"
  /\ IF role = "server"
     THEN /\ calls' = <<>>
          /\ sent' = <<>>
          /\ delivered' = <<>>
          /\ remote' = FreedRemote
          /\ pc' = "outer"
          /\ UNCHANGED ret
     ELSE /\ calls' = Append(calls, Call("connection_terminated"))
          /\ pc' = "local_terminated"
          /\ ret' = "true"
          /\ UNCHANGED <<sent, delivered, remote>>
  /\ UNCHANGED <<hvars, cvars, role, context, local, n_remote, rpc, cancel_req,
                 n_threads, clock, accepted>>

(***************************************************************************)
(* receive_messages_thread                                                 *)
(***************************************************************************)
\* while (!remote->is_stopped && !context->stop_local): the test, and with it
\* the entry into recvfrom, where a pending cancellation acts at once
ReceiverLoop ==
  /\ rpc = "loop"
  /\ rpc' = IF ~remote.is_stopped /\ ~context.stop_local
            THEN IF cancel_req THEN "cancelled" ELSE "recv"
            ELSE "exited"
  /\ report' = NoReport
  /\ UNCHANGED <<hvars, cvars, loop_exit, role, context, local, remote, n_remote, pc, cancel_req,
                 n_threads, clock, sent, delivered, calls, accepted, ret>>

\* receive_message when recvfrom returns the datagram d from src
ReceiveMessage(src, d, junk) ==
  /\ rpc = "recv"
  /\ \E r \in {receive_message(context, remote, src, d, junk)} :
         /\ r.remote.time_last # WIDE
         /\ Len(delivered) + Len(r.calls) <= MaxRead
         /\ remote' = r.remote
         /\ delivered' = delivered \o r.calls
         /\ report' = r.report
  /\ rpc' = "loop"
  /\ UNCHANGED <<hvars, cvars, loop_exit, role, context, local, n_remote, pc, cancel_req, n_threads,
                 clock, sent, calls, accepted, ret>>

\* receive_message when recvfrom returns n_read <= 0
ReceiveFailed ==
  /\ rpc = "recv"
  /\ report' = "error: polling remote failed"
  /\ rpc' = "loop"
  /\ UNCHANGED <<hvars, cvars, loop_exit, role, context, local, remote, n_remote, pc, cancel_req,
                 n_threads, clock, sent, delivered, calls, accepted, ret>>

\* a variant in which recvfrom is no cancellation point: the thread stays
\* blocked
receiver_stays_blocked ==
  /\ rpc = "recv"
  /\ cancel_req
  /\ UNCHANGED vars

\* the cancellation reaches the thread blocked in recvfrom
ReceiverCancelled ==
  /\ rpc = "recv"
  /\ cancel_req
  /\ rpc' = "cancelled"
  /\ report' = NoReport
  /\ UNCHANGED <<hvars, cvars, loop_exit, role, context, local, remote, n_remote, pc, cancel_req,
                 n_threads, clock, sent, delivered, calls, accepted, ret>>

(***************************************************************************)
(* The application                                                         *)
(***************************************************************************)
\* the application sets context->stop_local
SetStopLocal ==
  /\ pc # "done"
  /\ ~context.stop_local
  /\ context' = [context EXCEPT !.stop_local = TRUE]
  /\ report' = NoReport
  /\ UNCHANGED <<hvars, cvars, loop_exit, role, local, remote, n_remote, pc, rpc, cancel_req, n_threads,
                 clock, sent, delivered, calls, accepted, ret>>

(***************************************************************************)
(* race_client: the calling thread up to run_connection_threaded           *)
(***************************************************************************)
\* remote = calloc(1,sizeof(remote_endpoint_t))
CallocRemote == [NoRemote EXCEPT !.mem = "alloc"]

\* free(local); free(remote); return ret, on the paths of race_client that do
\* not reach local_terminated
ClientReturn(rv) ==
  /\ local' = [local EXCEPT !.mem = IF local.mem = "alloc" THEN "freed" ELSE local.mem]
  /\ remote' = FreedRemote
  /\ ret' = rv
  /\ pc' = "done"

\* race_client up to establish_connection: calloc of the remote and one test
\* of the loop of initialize_local_client with the iteration it allows; when
\* the loop ends without a socket, serveraddr was never assigned and a is the
\* value it happens to have
InitializeLocalClient(ok, a) ==
  /\ pc = "race_client"
  /\ IF context.stop_local \/ ok
     THEN /\ local' = [mem |-> "alloc", fd |-> IF context.stop_local THEN -1 ELSE 3,
                       id |-> 0, interval_millis |-> 0, is_non_blocking |-> FALSE,
                       db |-> race_create_databuf(MAX_MSG_LEN, 0)]
          /\ remote' = [CallocRemote EXCEPT
                          !.addr = IF context.stop_local THEN a ELSE ServerAddr]
          /\ pc' = "establish_connection"
          /\ report' = NoReport
          /\ UNCHANGED <<ret, clock>>
     ELSE IF context.connect_interval_millis = 0
     THEN /\ report' = "error: failed to open client socket"
          /\ ClientReturn("false")
          /\ UNCHANGED clock
     ELSE /\ clock' = race_sleep_millis(clock)
          /\ report' = NoReport
          /\ UNCHANGED <<local, remote, ret, pc>>
  /\ UNCHANGED <<hvars, cvars, loop_exit, role, context, n_remote, rpc, cancel_req, n_threads,
                 sent, delivered, calls, accepted>>

\* establish_connection up to its loop: race_set_rcv_timeout, which cannot
\* succeed without a socket, and context->write_request(db,0)
EstablishConnection(ok) ==
  /\ pc = "establish_connection"
  /\ ok => local.fd >= 0
  /\ IF ok
     THEN /\ local' = [local EXCEPT !.db = write_request(context, local.db, clock).db]
          /\ pc' = "request_loop"
          /\ report' = NoReport
          /\ UNCHANGED <<remote, ret>>
     ELSE /\ report' = "error: failed to set response timeout"
          /\ ClientReturn("false")
  /\ UNCHANGED <<hvars, cvars, loop_exit, role, context, n_remote, rpc, cancel_req, n_threads,
                 clock, sent, delivered, calls, accepted>>

\* while (!context->stop_local) { if (!send_assembled_message(...)) return false;
\* the test of the loop and the send of one iteration
RequestLoop(ok) ==
  /\ pc = "request_loop"
  /\ IF ~context.stop_local
     THEN /\ Len(sent) < MaxRequests
          /\ \E s \in {send_assembled_message(local, remote, ok)} :
                 /\ sent' = sent \o s.sends
                 /\ report' = s.report
                 /\ IF s.ret
                    THEN pc' = "wait_for_response" /\ UNCHANGED <<local, remote, ret>>
                    ELSE ClientReturn("false")
     ELSE /\ report' = NoReport
          /\ ClientReturn("false")
          /\ UNCHANGED sent
  /\ UNCHANGED <<hvars, cvars, loop_exit, role, context, n_remote, rpc, cancel_req, n_threads,
                 clock, delivered, calls, accepted>>

\* the loop of establish_connection with `>= 0` in place of `> 0`: it sleeps
\* and sends again whatever connect_interval_millis is
after_response_always_retry(rv, loc, rem) ==
  IF rv
  THEN IF ~context.stop_local
       THEN /\ local' = loc
            /\ remote' = rem
            /\ pc' = "run_connection_threaded"
            /\ UNCHANGED <<ret, clock>>
       ELSE /\ local' = [loc EXCEPT !.mem = "freed"]
            /\ remote' = FreedRemote
            /\ ret' = "false"
            /\ pc' = "done"
            /\ UNCHANGED clock
  ELSE /\ local' = loc
       /\ remote' = rem
       /\ clock' = race_sleep_millis(clock)
       /\ pc' = "request_loop"
       /\ UNCHANGED ret

\* the rest of the iteration once wait_for_response has returned rv: break and
\* return !context->stop_local, sleep and go on, or return false
AfterResponse(rv, loc, rem) ==
  IF rv
  THEN IF ~context.stop_local
       THEN /\ local' = loc
            /\ remote' = rem
            /\ pc' = "run_connection_threaded"
            /\ UNCHANGED <<ret, clock>>
       ELSE /\ local' = [loc EXCEPT !.mem = "freed"]
            /\ remote' = FreedRemote
            /\ ret' = "false"
            /\ pc' = "done"
            /\ UNCHANGED clock
  ELSE IF context.connect_interval_millis > 0
       THEN /\ local' = loc
            /\ remote' = rem
            /\ clock' = race_sleep_millis(clock)
            /\ pc' = "request_loop"
            /\ UNCHANGED ret
       ELSE /\ local' = [loc EXCEPT !.mem = "freed"]
            /\ remote' = FreedRemote
            /\ ret' = "false"
            /\ pc' = "done"
            /\ UNCHANGED clock

\* wait_for_response when recvfrom returns the datagram d from src
WaitForResponse(src, d, junk) ==
  /\ pc = "wait_for_response"
  /\ \E r \in {wait_for_response(context, [local EXCEPT !.db = WithJunk(local.db, junk)],
                                  remote, src, d, clock)} :
         /\ context' = r.context
         /\ calls' = calls \o r.calls
         /\ report' = r.report
         /\ AfterResponse(r.ret, [r.local EXCEPT !.db = WithJunk(r.local.db, 0)], r.remote)
  /\ UNCHANGED <<hvars, cvars, loop_exit, role, n_remote, rpc, cancel_req, n_threads,
                 sent, delivered, accepted>>

\* wait_for_response when recvfrom returns n_read <= 0 (the timeout included)
WaitForResponseFailed ==
  /\ pc = "wait_for_response"
  /\ report' = IF context.connect_interval_millis = 0
               THEN "error: failed to receive server response" ELSE NoReport
  /\ AfterResponse(FALSE, local, remote)
  /\ UNCHANGED <<hvars, cvars, loop_exit, role, context, n_remote, rpc, cancel_req, n_threads,
                 sent, delivered, calls, accepted>>

EInit ==
  /\ context \in {[flags |-> f, stop_local |-> FALSE,
                   connect_interval_millis |-> c, time_diff |-> 0] :
                    f \in ServerFlags, c \in IF role = "client" THEN ConnectIntervals ELSE {0}}
  /\ local = NoLocal
  /\ remote = NoRemote
  /\ n_remote = 0
  /\ rpc = "none"
  /\ cancel_req = FALSE
  /\ n_threads = 0
  /\ clock = Clock0
  /\ sent = <<>>
  /\ delivered = <<>>
  /\ report = NoReport
  /\ calls = <<>>
  /\ accepted = <<>>
  /\ loop_exit = "none"

\* a process that calls race_server
Init ==
  /\ HInit
  /\ CIdle
  /\ role = "server"
  /\ EInit
  /\ pc = "race_server"
  /\ ret = "none"

Connection ==
  \/ \E ok \in BOOLEAN : PthreadCreate(ok)
  \/ ConnectionStarted
  \/ \E wd \in WriteDataChoices, ok \in BOOLEAN : SenderLoop(wd, ok)
  \/ \E wd \in WriteDataChoices, ok \in BOOLEAN : AfterLoop(wd, ok)
  \/ PthreadJoin
  \/ ConnectionTerminated
  \/ ReceiverLoop
  \/ \E src \in SessionAddrs, d \in Incoming, junk \in JunkBytes :
        ReceiveMessage(src, d, junk)
  \/ ReceiveFailed
  \/ ReceiverCancelled
  \/ LocalTerminated
  \/ SetStopLocal

Next ==
  \/ \E ok \in BOOLEAN : InitializeLocalServer(ok)
  \/ OuterLoop
  \/ WaitForRequestNotBlocking
  \/ WaitForRequestFailed
  \/ \E src \in Addrs, d \in Incoming, junk \in JunkBytes : WaitForRequest(src, d, junk)
  \/ Connection

Spec == Init /\ [][Next]_vars

\* the steps of the sender that call send_data, and the states in which one
\* of them can be taken
SenderSends ==
  \/ \E wd \in WriteDataChoices, ok \in BOOLEAN : SenderLoop(wd, ok)
  \/ \E wd \in WriteDataChoices, ok \in BOOLEAN : AfterLoop(wd, ok)

SenderCanSend ==
  \/ pc = "after_loop"
  \/ /\ pc = "loop"
     /\ remote.is_stopped \/ context.stop_local \/ NumCalls("send_data") < MaxTicks

\* a thread that can take a step takes one: the thread that runs
\* run_connection_threaded, given that the callbacks, sleep and sendto return,
\* and the receiver thread in its loop test and at its cancellation point;
\* nothing is assumed about datagrams arriving.  The fairness of the sending
\* steps is weak fairness with the enabling condition written out.
SpecLive ==
  /\ Init /\ [][Next]_vars
  /\ WF_vars(ConnectionStarted)
  /\ WF_vars(PthreadJoin)
  /\ WF_vars(ConnectionTerminated)
  /\ WF_vars(ReceiverLoop)
  /\ WF_vars(ReceiverCancelled)
  /\ ([]<>(~SenderCanSend) \/ []<><<SenderSends>>_vars)

\* a process that calls race_client
InitClient ==
  /\ HInit
  /\ CIdle
  /\ role = "client"
  /\ EInit
  /\ pc = "race_client"
  /\ ret = "none"

NextClient ==
  \/ \E ok \in BOOLEAN, a \in Addrs : InitializeLocalClient(ok, a)
  \/ \E ok \in BOOLEAN : EstablishConnection(ok)
  \/ \E ok \in BOOLEAN : RequestLoop(ok)
  \/ \E src \in Addrs, d \in ResponseDatagrams, junk \in JunkBytes :
        WaitForResponse(src, d, junk)
  \/ WaitForResponseFailed
  \/ Connection

SpecClient == InitClient /\ [][NextClient]_vars

(***************************************************************************)
(* messages.c used on its own: an application writes the messages into a   *)
(* buffer of MAX_MSG_LEN bytes and reads and classifies what the buffer    *)
(* holds.  clast is the last call: its name, the payload it was given      *)
(* (writers), what it returned and the fields it gave back (readers).      *)
(***************************************************************************)
MaxMsgOps == 2         \* calls on the buffer in one behaviour

MsgTypes == {"request", "accept", "reject", "stop", "pause", "resume", "data"}

MsgFlags == {DATA_SENDER, DATA_SENDER + DATA_RECEIVER}
MsgSchemas == {<< >>, <<115>>}
MsgSims == {5}
MsgIntervals == {2000}
MsgIds == {1, 2}
MsgReasons == {NO_MORE_CONNECTIONS, UNKNOWN_DATA, UNSUPPORTED_INTERVAL}
MsgNows == {MaxClock}

\* the arguments of a writer; a field the writer does not take is 0
Payload(flags, schema, sim_millis, interval_millis, client_id, reason, sender, now) ==
  [flags |-> flags, schema |-> schema, sim_millis |-> sim_millis,
   interval_millis |-> interval_millis, client_id |-> client_id,
   reason |-> reason, sender |-> sender, now |-> now]

Payloads(M) ==
  IF M = "request"
  THEN {Payload(f, s, t, i, 0, 0, NO_ID, n) :
          f \in MsgFlags, s \in MsgSchemas, t \in MsgSims, i \in MsgIntervals, n \in MsgNows}
  ELSE IF M = "accept"
  THEN {Payload(f, << >>, t, i, c, 0, SERVER_ID, n) :
          f \in MsgFlags, t \in MsgSims, i \in MsgIntervals, c \in MsgIds, n \in MsgNows}
  ELSE IF M = "reject"
  THEN {Payload(0, << >>, 0, 0, 0, r, SERVER_ID, n) : r \in MsgReasons, n \in MsgNows}
  ELSE {Payload(0, << >>, 0, 0, 0, 0, c, n) : c \in MsgIds, n \in MsgNows}

\* race_write_M (db, ...); a Data message is race_begin_write_data, the
\* payload of the application and race_end_write_data
MsgWriteCall(M, db, p) ==
  CASE M = "request" -> race_write_request(db, p.flags, p.schema, p.sim_millis,
                                           p.interval_millis, p.now)
    [] M = "accept" -> race_write_accept(db, p.flags, p.sim_millis, p.interval_millis,
                                         p.client_id, p.now)
    [] M = "reject" -> race_write_reject(db, p.reason, p.now)
    [] M = "stop" -> race_write_stop(db, p.sender, p.now)
    [] M = "pause" -> race_write_pause(db, p.sender, p.now)
    [] M = "resume" -> race_write_resume(db, p.sender, p.now)
    [] M = "data" -> \* send_data without the sendto
         LET b == race_begin_write_data(db, p.sender, p.now)
             w == write_data(b.db, b.pos, "track")
         IN  race_end_write_data(w.db, w.pos)

\* race_read_M (db, ...)
MsgReadCall(M, db) ==
  CASE M = "request" -> race_read_request(db, MAX_SCHEMA_LEN)
    [] M = "accept" -> race_read_accept(db)
    [] M = "reject" -> race_read_reject(db)
    [] M = "stop" -> race_read_stop(db)
    [] M = "pause" -> race_read_pause(db)
    [] M = "resume" -> race_read_resume(db)
    [] M = "data" -> race_read_data_header(db)

\* race_is_M (db)
MsgIsCall(M, db) ==
  CASE M = "request" -> race_is_request(db)
    [] M = "accept" -> race_is_accept(db)
    [] M = "reject" -> race_is_reject(db)
    [] M = "stop" -> race_is_stop(db)
    [] M = "pause" -> race_is_pause(db)
    [] M = "resume" -> race_is_resume(db)
    [] M = "data" -> race_is_data(db)

\* the fields the writer of M stores, in the order of the out parameters of
\* its reader
Encoded(M, p) ==
  CASE M = "request" -> <<p.now, p.flags, p.schema, p.sim_millis, p.interval_millis>>
    [] M = "accept" -> <<p.flags, p.sim_millis, p.interval_millis, p.client_id>>
    [] M = "reject" -> <<p.reason>>
    [] OTHER -> <<p.sender, p.now>>

\* the out parameters of the reader of M
Decoded(M, r) ==
  CASE M = "request" -> <<r.time_sent, r.flags, r.schema, r.sim_millis, r.interval_millis>>
    [] M = "accept" -> <<r.flags, r.sim_millis, r.interval_millis, r.client_id>>
    [] M = "reject" -> <<r.reason>>
    [] OTHER -> <<r.sender, r.time>>

\* a Request with an empty schema whose schema length field (bytes 20 and 21)
\* was set to 32767: more than any buffer holds
LongSchemaRequest ==
  LET w == race_write_request(PeerBuf, DATA_SENDER + DATA_RECEIVER, << >>, 5, 2000, MaxClock)
  IN  [i \in 1 .. w.pos |-> IF i = 21 THEN 127 ELSE IF i = 22 THEN 255
                                                   ELSE Wire(w.db, w.pos)[i]]

\* what a socket hands to the buffer: a Stop of the peer; the same with one
\* byte more, and with a length field of 20; a Request that lost its last
\* byte; a Request with a schema length of 32767; a Data message whose
\* length field was never set
MsgReceived ==
  {StopDatagram(1, MaxClock),
   LongSchemaRequest,
   StopDatagram(1, MaxClock) \o <<0>>,
   Wire(write_header(PeerBuf, STOP_MSG, REJECT_LEN, 1, MaxClock).db, HEADER_LEN),
   SubSeq(RequestDatagram(MaxClock), 1, Len(RequestDatagram(MaxClock)) - 1),
   UnfinishedData(1)}

MsgCalled(op, M, db, rv, fields, err) ==
  /\ cn < MaxMsgOps
  /\ cn' = cn + 1
  /\ cdb' = db
  /\ clast' = [op |-> op, type |-> M, pre |-> cdb, ret |-> rv, fields |-> fields,
               err |-> err]
  /\ UNCHANGED <<hvars, evars, coob>>

MsgWrite(M, p) ==
  \E w \in {MsgWriteCall(M, cdb, p)} :
     MsgCalled("write", M, w.db, w.pos, Encoded(M, p), "")

MsgRead(M) ==
  \E r \in {MsgReadCall(M, cdb)} :
     MsgCalled("read", M, r.db, r.pos, Decoded(M, r), r.err)

MsgIs(M) ==
  \E b \in {MsgIsCall(M, cdb)} : MsgCalled("is", M, cdb, IF b THEN 1 ELSE 0, << >>, "")

\* recvfrom(fd, db->buf, db->capacity, ...) followed by db->pos = nread
MsgRecv(d) ==
  \E r \in {recvfrom(cdb, d)} : MsgCalled("recvfrom", "", r, Len(d), << >>, "")

\* race_create_databuf(MAX_MSG_LEN): the buffer of an endpoint
InitMsg ==
  /\ HInit
  /\ EIdle
  /\ cdb \in {race_create_databuf(MAX_MSG_LEN, junk) : junk \in JunkBytes}
  /\ clast = [op |-> "race_create_databuf", type |-> "", pre |-> cdb, ret |-> 0,
              fields |-> << >>, err |-> ""]
  /\ coob = FALSE
  /\ cn = 0

NextMsg ==
  \/ \E M \in MsgTypes : \E p \in Payloads(M) : MsgWrite(M, p)
  \/ \E M \in MsgTypes : MsgRead(M)
  \/ \E M \in MsgTypes : MsgIs(M)
  \/ \E d \in MsgReceived : MsgRecv(d)

SpecMsg == InitMsg /\ [][NextMsg]_vars

(***************************************************************************)
(* Claims about the receiver of a connection                               *)
(***************************************************************************)
\* the datagrams on the wire, as the readers of messages.c see them
IsStopMsg(m) == race_is_stop(recvfrom(PeerBuf, m))
IsDataMsg(m) == race_is_data(recvfrom(PeerBuf, m))
IsAcceptMsg(m) == race_is_accept(recvfrom(PeerBuf, m))
IsRejectMsg(m) == race_is_reject(recvfrom(PeerBuf, m))
SenderOf(m) ==
  IF IsStopMsg(m) THEN race_read_stop(recvfrom(PeerBuf, m)).sender
  ELSE race_read_data_header(recvfrom(PeerBuf, m)).sender

\* the Data and Stop datagrams of the peers, by sender id and send time
DataFrom == [id \in PeerIds, t \in Times |-> DataDatagram(id, t)]
StopFrom == [id \in PeerIds |-> StopDatagram(id, 0)]
RequestFrom == [t \in Times |-> RequestDatagram(t)]

\* C2: in receive_message a Data datagram from the remote's id whose header
\* send time is strictly less than remote.time_last is dropped: read_data is
\* not invoked and remote.time_last keeps its value.
C2_LateDataDropped ==
  (rpc = "recv" /\ remote.id \in PeerIds)
  => \A t \in Times, src \in SessionAddrs, junk \in JunkBytes :
       t < remote.time_last
       => \A r \in {receive_message(context, remote, src, DataFrom[remote.id, t], junk)} :
            /\ r.calls = <<>>
            /\ r.remote.time_last = remote.time_last

\* a late Data datagram from the remote has just been dropped
C2_Witness ==
  /\ report = "warning: ignoring out-of-order message"
  /\ remote.time_last > 0
  /\ rpc = "loop"

\* C3: over the lifetime of a connection, whatever the order of the
\* datagrams, remote.time_last never decreases and the send times of the
\* Data messages handed to read_data are non-decreasing.
C3_TimeLastMonotonic ==
  /\ [](\A i, j \in DOMAIN delivered :
          (i < j /\ delivered[i][1] = "read_data" /\ delivered[j][1] = "read_data")
          => delivered[i][2] <= delivered[j][2])
  /\ [][(remote.mem = "alloc" /\ remote'.mem = "alloc")
          => remote'.time_last >= remote.time_last]_vars

\* two Data messages were handed to read_data, the second one newer
C3_Witness ==
  /\ Len(delivered) = 2
  /\ delivered[1][1] = "read_data" /\ delivered[2][1] = "read_data"
  /\ delivered[1][2] < delivered[2][2]
  /\ remote.time_last = delivered[2][2]

\* C4: remote.is_stopped becomes true on receipt of a well-formed Stop whose
\* sender id equals remote.id, and a Stop with any other sender id never sets
\* it.
C4_StopFromRemoteOnly ==
  rpc = "recv"
  => \A id \in PeerIds, src \in SessionAddrs, junk \in JunkBytes :
       \A r \in {receive_message(context, remote, src, StopFrom[id], junk)} :
         r.remote.is_stopped <=> (remote.is_stopped \/ id = remote.id)

\* the Stop of the remote has arrived on a connection that was running
C4_Witness ==
  /\ remote.mem = "alloc"
  /\ remote.is_stopped
  /\ rpc = "loop"
  /\ pc \in {"loop", "after_loop"}

(***************************************************************************)
(* Claims about the end of a connection                                    *)
(***************************************************************************)
StopsSent == {i \in DOMAIN sent : IsStopMsg(sent[i].msg)}

\* the flush: the calls and the datagrams the step adds are one send_data,
\* with at most one Data datagram, and then one send_stop with one Stop
FlushThenStop ==
  /\ calls' = calls \o <<Call("send_data"), Call("send_stop")>>
  /\ Len(sent') \in {Len(sent) + 1, Len(sent) + 2}
  /\ SubSeq(sent', 1, Len(sent)) = sent
  /\ IsStopMsg(sent'[Len(sent')].msg)
  /\ Len(sent') = Len(sent) + 2 => IsDataMsg(sent'[Len(sent) + 1].msg)
  /\ \A i \in (Len(sent) + 1) .. Len(sent') : sent'[i].to = remote.addr

\* C5: at the test that follows the sender loop (context.stop_local set, the
\* remote not stopped) the sender performs one final send_data and then one
\* send_stop, in that order; when the test fails it sends neither; after it
\* no datagram is sent on the connection, which sees at most one Stop.
C5_FlushThenStop ==
  /\ [](Cardinality(StopsSent) <= 1)
  /\ [][\A wd \in WriteDataChoices, ok \in BOOLEAN :
          (pc = "after_loop" /\ AfterLoop(wd, ok))
          => IF context.stop_local /\ ~remote.is_stopped
             THEN FlushThenStop
             ELSE sent' = sent /\ calls' = calls]_vars
  /\ [][(pc \in {"pthread_join", "connection_terminated"})
          => (sent' = sent \/ sent' = << >>)]_vars

\* the sender has flushed a Data datagram and sent its Stop
C5_Witness ==
  /\ pc = "pthread_join"
  /\ context.stop_local
  /\ Len(sent) >= 2
  /\ IsStopMsg(sent[Len(sent)].msg)
  /\ IsDataMsg(sent[Len(sent) - 1].msg)

\* C5 as stated: when the sender loop has exited with context.stop_local set
\* and the remote not stopped, the sender performs the final send_data and
\* then sends the Stop.
C5_AsStated ==
  (pc \in {"pthread_join", "connection_terminated"} /\ loop_exit = "stop_local")
  => /\ Len(calls) >= 2
     /\ calls[Len(calls)] = Call("send_stop")
     /\ calls[Len(calls) - 1] = Call("send_data")
     /\ Cardinality(StopsSent) = 1

\* C6: exactly one receiver thread exists per active connection, and it is
\* cancelled and joined before connection_terminated is invoked and before
\* the remote endpoint is freed: no receiver step runs on a released remote.
C6_ReceiverJoined ==
  /\ [](/\ n_threads \in {0, 1}
        /\ (rpc # "none") <=> (n_threads = 1)
        /\ (pc \in {"connection_started", "loop", "after_loop", "pthread_join"})
             <=> (n_threads = 1)
        /\ n_threads = 1 => (remote.mem = "alloc" /\ local.mem = "alloc"))
  /\ [][PthreadJoin => cancel_req]_vars
  /\ [][ConnectionTerminated => (n_threads = 0 /\ rpc = "none")]_vars

\* a connection whose receiver has delivered a message has been joined
C6_Witness ==
  /\ pc = "connection_terminated"
  /\ n_threads = 0
  /\ delivered # <<>>

(***************************************************************************)
(* Claims about the handshake of the server                                *)
(***************************************************************************)
LastSent == sent[Len(sent)]

\* the Requests of the peers as race_read_request reads them
RequestRead == [t \in Times |-> race_read_request(recvfrom(PeerBuf, RequestFrom[t]),
                                                   MAX_SCHEMA_LEN)]

\* what wait_for_request makes, in the current state, of the Request sent at
\* t that arrives from src
Handled(src, t, cr, ok, junk) ==
  wait_for_request(context, [local EXCEPT !.db = WithJunk(local.db, junk)],
                   n_remote, src, RequestFrom[t], cr, ok, clock)

\* r sends one Accept to src with server_flags = context.flags, the values
\* chk that check_request left and the next client id
AcceptSent(r, src, chk) ==
  /\ Len(r.sends) = 1
  /\ r.sends[1].to = src
  /\ IsAcceptMsg(r.sends[1].msg)
  /\ \A a \in {race_read_accept(recvfrom(PeerBuf, r.sends[1].msg))} :
        /\ a.pos > 0
        /\ a.flags = context.flags
        /\ a.sim_millis = chk.sim_millis
        /\ a.interval_millis = chk.interval_millis
        /\ a.client_id = n_remote + 1
  /\ r.n_remote = n_remote + 1

\* r returns a remote with the next id, not stopped, last heard of at t
RemoteReturned(r, t) ==
  /\ r.remote.mem = "alloc"
  /\ r.remote.id = n_remote + 1
  /\ ~r.remote.is_stopped
  /\ r.remote.time_last = t

\* C7: when check_request returns 0 for a well-formed Request, the server
\* sends one Accept to the requester with server_flags = context.flags, the
\* simulation time and interval as check_request left them and the newly
\* allocated client id; when sendto takes that Accept, wait_for_request
\* returns a remote with that id, not stopped, whose time_last is the send
\* time of the Request header; when sendto fails, it returns no remote.
C7_AcceptedRequest ==
  pc = "wait_for_request"
  => \A src \in Addrs, t \in Times, cr \in CheckChoices, ok \in BOOLEAN,
        junk \in JunkBytes :
       cr.reject = 0
       => \A r \in {Handled(src, t, cr, ok, junk)} :
            /\ RequestRead[t].pos > 0 /\ RequestRead[t].time_sent = t
            /\ AcceptSent(r, src, check_request(RequestRead[t].sim_millis,
                                                RequestRead[t].interval_millis, cr))
            /\ r.sends[1].ok = ok
            /\ IF ok THEN RemoteReturned(r, t) ELSE r.remote.mem # "alloc"

\* a Request sent at time 1 was accepted with the values check_request stored
C7_Witness ==
  /\ pc = "run_connection_threaded"
  /\ remote.mem = "alloc"
  /\ remote.time_last = 1
  /\ local.interval_millis = AppIntervalMillis
  /\ Len(sent) >= 1
  /\ IsAcceptMsg(LastSent.msg)
  /\ LastSent.ok

\* C7 as stated: whenever check_request returns 0 for a well-formed Request,
\* the Accept is sent and the remote returned.
C7_AsStated ==
  pc = "wait_for_request"
  => \A src \in Addrs, t \in Times, cr \in CheckChoices, ok \in BOOLEAN,
        junk \in JunkBytes :
       cr.reject = 0
       => \A r \in {Handled(src, t, cr, ok, junk)} :
            /\ AcceptSent(r, src, check_request(RequestRead[t].sim_millis,
                                                RequestRead[t].interval_millis, cr))
            /\ RemoteReturned(r, t)

\* C8: when check_request returns a non-zero reason, the server sends exactly
\* one Reject with that reason to the requester, creates no remote, does not
\* advance the remote-id counter and is back at its outer loop; while it
\* waits for a Request it has no remote and has sent no Data.
C8_RejectedRequest ==
  /\ (pc \in {"outer", "wait_for_request"})
       => /\ remote.mem # "alloc"
          /\ \A i \in DOMAIN sent : ~IsDataMsg(sent[i].msg)
  /\ report = "info: remote rejected" => pc = "outer"
  /\ pc = "wait_for_request"
       => \A src \in Addrs, t \in Times, cr \in CheckChoices, ok \in BOOLEAN,
             junk \in JunkBytes :
            cr.reject # 0
            => \A r \in {Handled(src, t, cr, ok, junk)} :
                 /\ Len(r.sends) = 1
                 /\ r.sends[1].to = src
                 /\ IsRejectMsg(r.sends[1].msg)
                 /\ \A j \in {race_read_reject(recvfrom(PeerBuf, r.sends[1].msg))} :
                       j.pos > 0 /\ j.reason = cr.reject
                 /\ r.remote.mem # "alloc"
                 /\ r.n_remote = n_remote

\* a Request has just been rejected
C8_Witness ==
  /\ pc = "outer"
  /\ report = "info: remote rejected"
  /\ Len(sent) >= 1
  /\ IsRejectMsg(LastSent.msg)
  /\ race_read_reject(recvfrom(PeerBuf, LastSent.msg)).reason = UNKNOWN_DATA

\* C9: on one server endpoint the ids of the remotes that wait_for_request
\* returns are pairwise distinct and strictly increasing, at least 1 and never
\* SERVER_ID; they are 1, 2, ... as long as no Accept failed to be sent, and
\* every Accept that failed used up one id.
C9_RemoteIds ==
  /\ \A i \in DOMAIN accepted :
        /\ accepted[i] >= 1
        /\ accepted[i] # SERVER_ID
        /\ accepted[i] >= i
        /\ accepted[i] <= n_remote
        /\ \A j \in DOMAIN accepted : i < j => accepted[i] < accepted[j]
  /\ n_remote = Len(accepted) => \A i \in DOMAIN accepted : accepted[i] = i

\* two requests were accepted one after the other
C9_Witness == accepted = <<1, 2>> /\ remote.id = 2 /\ remote.mem = "alloc"

\* C9 as stated: the ids are strictly increasing, never SERVER_ID, and the
\* first accepted remote has id 1.
C9_AsStated ==
  /\ \A i, j \in DOMAIN accepted : i < j => accepted[i] < accepted[j]
  /\ \A i \in DOMAIN accepted : accepted[i] # SERVER_ID
  /\ accepted # <<>> => accepted[1] = 1

(***************************************************************************)
(* Claims about the ids of the endpoints                                   *)
(***************************************************************************)
\* the client ids of the Accepts a client has read
AcceptedIds == {calls[i][2] : i \in {k \in DOMAIN calls : calls[k][1] = "info: server accept"}}

\* C10: after a successful client handshake the id of the client's local
\* endpoint is the client id of the server's Accept, and every Data and Stop
\* the client sends carries it as sender id.
C10_ClientIdAdopted ==
  (role = "client" /\ remote.mem = "alloc" /\ local.mem = "alloc")
  => \A id \in AcceptedIds :
       /\ local.id = id
       /\ \A i \in DOMAIN sent :
            (IsDataMsg(sent[i].msg) \/ IsStopMsg(sent[i].msg)) => SenderOf(sent[i].msg) = id

(***************************************************************************)
(* Claims about the failures of a connection                               *)
(***************************************************************************)
\* the reasons of the Rejects a client has read
RejectReasons == {calls[i][2] : i \in {k \in DOMAIN calls : calls[k][1] = "info: server reject"}}

\* the callbacks of a running connection
ConnectionCalls == {"connection_started", "connection_terminated", "send_data", "send_stop"}

\* C11: when the server's answer to the client's Request is a Reject,
\* wait_for_response hands its reason to context->info and returns false; with
\* connect_interval_millis = 0 race_client then returns false having sent the
\* one Request and nothing else and without running a connection, and with
\* connect_interval_millis > 0 it goes back to sending from its buffer.
C11_RejectFails ==
  /\ (pc = "wait_for_response")
     => \A src \in Addrs, junk \in JunkBytes :
          \A r \in {wait_for_response(context, [local EXCEPT !.db = WithJunk(local.db, junk)],
                                       remote, src, RejectDatagram(UNKNOWN_DATA, 0), clock)} :
             /\ ~r.ret
             /\ r.calls = <<RejectInfo([reason |-> UNKNOWN_DATA])>>
  /\ (role = "client" /\ report = "info: server reject")
     => IF context.connect_interval_millis = 0
        THEN /\ pc = "done"
             /\ ret = "false"
             /\ n_threads = 0
             /\ Len(sent) = 1
             /\ \A i \in DOMAIN calls : calls[i][1] \notin ConnectionCalls
        ELSE pc = "request_loop"

\* a client without retry interval that has returned after a Reject
C11_Witness ==
  /\ role = "client"
  /\ report = "info: server reject"
  /\ context.connect_interval_millis = 0
  /\ RejectReasons = {UNKNOWN_DATA}
  /\ pc = "done"
  /\ ret = "false"

\* C11 as stated: after a Reject race_client has returned false without
\* sending anything further, for every value of connect_interval_millis.
C11_AsStated ==
  (role = "client" /\ RejectReasons # {})
  => \/ pc = "done" /\ ret = "false" /\ Len(sent) = 1
     \/ report = "info: server reject" /\ Len(sent) = 1

\* C12: when send_data fails in the sender loop while neither
\* context.stop_local nor remote.is_stopped is set, the loop exits, a Stop is
\* sent to the remote, the receiver thread is joined and connection_terminated
\* fires.
C12_StopOnSendError ==
  (loop_exit = "send_error" /\ ~context.stop_local /\ ~remote.is_stopped)
  => /\ pc \in {"after_loop", "pthread_join", "connection_terminated"}
     /\ (pc = "connection_terminated") => (n_threads = 0)
     /\ (pc \in {"pthread_join", "connection_terminated"}) => (Cardinality(StopsSent) = 1)

\* the reports of the fatal errors of the entry points
FatalReports == {"error: failed to open server socket",
                 "error: failed to open client socket"}

\* C13: race_server and race_client return false when a fatal error occurred
\* (the server socket cannot be opened, the client socket cannot be opened and
\* there is no retry, the receiver thread cannot be created), and true only
\* when none did.
C13_FatalReturnsFalse ==
  /\ (pc = "done" /\ report \in FatalReports) => (ret = "false")
  /\ (role = "client" /\ report = "error: failed to create receiver thread")
     => (ret = "false")

(***************************************************************************)
(* Claims about the buffer codec                                           *)
(***************************************************************************)
\* the bytes the last write needed
Needed == IF clast.op = "race_write_string" THEN Len(clast.str) + 2 ELSE Width(clast.op)

\* the bytes left in the buffer from the position of the last call on
Remaining == clast.pre.capacity - clast.pos

\* C14: a write of a short, an int, a long, a double or a string at a position
\* from which the buffer has fewer bytes left than the write needs returns 0,
\* leaves db->pos as it was and changes no byte of the buffer.
C14_FailedWriteUntouched ==
  (clast.op \in FixedWrites \cup {"race_write_string"} /\ Remaining < Needed)
  => /\ clast.ret = 0
     /\ cdb.pos = clast.pre.pos
     /\ cdb.buf = clast.pre.buf

\* a long that does not fit is refused after an earlier write has filled
\* part of the buffer
C14_Witness ==
  /\ clast.op = "race_write_long"
  /\ clast.pos = 4
  /\ clast.ret = 0
  /\ cdb.pos = 4
  /\ cdb.buf = <<17, 34, 51, 68>>

\* C15: a write of n bytes at pos succeeds and returns pos + n exactly when
\* pos + n <= capacity, a value that fits exactly into the last bytes of the
\* buffer included, and fails only when pos + n > capacity.
C15_ExactFitWrites ==
  (clast.op \in FixedWrites)
  => IF clast.pos + Needed <= clast.pre.capacity
     THEN clast.ret = clast.pos + Needed /\ cdb.pos = clast.ret
     ELSE clast.ret = 0

\* C16: after any sequence of codec calls the cursor satisfies
\* 0 <= db->pos <= db->capacity and no byte outside [0, capacity) has been
\* read or written.
C16_CursorInBuffer ==
  /\ cdb.pos >= 0
  /\ cdb.pos <= cdb.capacity
  /\ ~coob

\* the read that matches a write
ReadOf(op) ==
  IF op = "race_write_short" THEN "race_read_short"
  ELSE IF op = "race_write_int" THEN "race_read_int"
  ELSE IF op = "race_write_long" THEN "race_read_long"
  ELSE "race_read_double"

\* 256 to the power n
RECURSIVE Pow256(_)
Pow256(n) == IF n = 0 THEN 1 ELSE 256 * Pow256(n - 1)

\* byte i of n of the two's complement of v, the most significant first
MsbFirst(v, n) == [i \in 1 .. n |-> IF n - i >= 4 THEN (IF v < 0 THEN 255 ELSE 0)
                                    ELSE (v \div Pow256(n - i)) % 256]

\* C17: in every buffer the codec calls produce, and at every position, a
\* write of a short, an int, a long, a double (as its 64 bit word) or a
\* string that succeeds is read back by the matching read at that position
\* with the value written and the cursor the write returned; the bytes are
\* the value most significant byte first, a string is its length in two
\* bytes followed by its bytes (race_read_strncpy gives the first
\* max_len - 1 of them).
C17_ReadBackWritten ==
  /\ \A op \in FixedWrites, pos \in Positions : \A v \in ValuesOf(op) :
        \A w \in {WriteCall(op, cdb, pos, v)} :
           (w.pos # 0)
           => /\ ReadCall(ReadOf(op), w.db, pos).v = v
              /\ ReadCall(ReadOf(op), w.db, pos).pos = w.pos
              /\ ReadCall(ReadOf(op), w.db, pos).db.pos = w.pos
              /\ BytesAt(w.db, pos, Width(op)) = MsbFirst(v, Width(op))
  /\ \A pos \in Positions, str \in CodecStrings :
        \A w \in {race_write_string(cdb, pos, str, Len(str))} :
           (w.pos # 0)
           => /\ race_read_strdup(w.db, pos).v = str
              /\ race_read_strdup(w.db, pos).pos = w.pos
              /\ \A m \in DestSizes :
                    /\ race_read_strncpy(w.db, pos, m).v = SubSeq(str, 1, Min(Len(str), m - 1))
                    /\ race_read_strncpy(w.db, pos, m).pos = w.pos
              /\ BytesAt(w.db, pos, Len(str) + 2) = <<0, Len(str)>> \o str

\* an int is written at position 2 and read back from there
C17_Witness ==
  /\ cn = 2
  /\ clast.op = "race_read_int"
  /\ clast.pos = 2
  /\ clast.out = 287454020
  /\ clast.ret = 6
  /\ BytesAt(cdb, 2, 4) = <<17, 34, 51, 68>>

\* the length prefix the last string read found at its position
PrefixAt == SVal(BytesAt(clast.pre, clast.pos, 2))

C19_FailedStringReadClean ==
  (clast.op \in StringReads /\ clast.ret = 0 /\ clast.pre.pos = clast.pos)
  => cdb = clast.pre

(***************************************************************************)
(* Claims about the message layer                                          *)
(***************************************************************************)
\* the number of bytes of a message of type M, where it is fixed
FixedLen(M) ==
  CASE M = "accept" -> 36
    [] M = "reject" -> 20
    [] M \in {"stop", "pause", "resume"} -> 16
    [] OTHER -> 0

\* C20: whatever the buffer held before, the writer of each message type M
\* with each payload leaves a buffer that the reader of M decodes with success
\* into the fields written (to the end of the message; race_read_data_header
\* to the end of the header, where the payload of the application starts),
\* that race_is_M accepts and race_is_N refuses for every other type N, and
\* whose msg_length field at offset 2 is the number of bytes written: 36 for
\* Accept, 20 for Reject, 16 for Stop, Pause and Resume, the final cursor for
\* Request and Data.
C20_MessageRoundTrip ==
  \A M \in MsgTypes : \A p \in Payloads(M) :
     \A w \in {MsgWriteCall(M, cdb, p)} :
        /\ w.pos > 0
        /\ w.db.pos = w.pos
        /\ \A r \in {MsgReadCall(M, w.db)} :
              /\ r.pos = (IF M = "data" THEN HEADER_LEN ELSE w.pos)
              /\ r.err = ""
              /\ Decoded(M, r) = Encoded(M, p)
        /\ \A N \in MsgTypes : MsgIsCall(N, w.db) <=> (N = M)
        /\ race_peek_short(w.db, 2).v = w.pos
        /\ FixedLen(M) # 0 => w.pos = FixedLen(M)

\* an Accept was written and then read back
C20_Witness ==
  /\ cn = 2
  /\ clast.op = "read"
  /\ clast.type = "accept"
  /\ clast.ret = 36
  /\ clast.fields = <<DATA_SENDER + DATA_RECEIVER, 5, 2000, 2>>
  /\ race_peek_short(cdb, 2).v = 36

\* the type id and the fixed length the reader of M passes to read_header
MsgId(M) ==
  CASE M = "request" -> REQUEST_MSG
    [] M = "accept" -> ACCEPT_MSG
    [] M = "reject" -> REJECT_MSG
    [] M = "stop" -> STOP_MSG
    [] M = "pause" -> PAUSE_MSG
    [] M = "resume" -> RESUME_MSG
    [] M = "data" -> DATA_MSG

MsgCheckLen(M) == IF M \in {"request", "data"} THEN NO_FIXED_MSG_LEN ELSE FixedLen(M)

\* the three tests on the bytes the buffer holds: db->pos of them
LenOk(M) == MsgCheckLen(M) = NO_FIXED_MSG_LEN \/ cdb.pos = MsgCheckLen(M)
TypeOk(M) == SVal(BytesAt(cdb, 0, 2)) = MsgId(M)
StoredOk == SVal(BytesAt(cdb, 2, 2)) = cdb.pos

\* C21: read_header tests the received length against the fixed length of
\* the type, then the type id in the first two bytes, then the stored
\* msg_length against the received length; the first test that fails ends it
\* with return value 0 and its own error string, nothing having been read
\* behind the field tested; only when all three pass are the sender id and
\* the send time read, and the position behind them returned.
C21_HeaderChecksInOrder ==
  \A M \in MsgTypes :
     \A r \in {read_header(cdb, MsgId(M), MsgCheckLen(M))} :
        IF ~LenOk(M)
        THEN r.pos = 0 /\ r.err = "wrong message length" /\ r.db = cdb
        ELSE IF ~TypeOk(M)
        THEN r.pos = 0 /\ r.err = "wrong message type" /\ r.db.pos = 2
        ELSE IF ~StoredOk
        THEN /\ r.pos = 0
             /\ r.err = "inconsistent header (message length does not match received bytes)"
             /\ r.db.pos = 4
        ELSE /\ r.pos = HEADER_LEN
             /\ r.err = ""
             /\ r.db.pos = HEADER_LEN
             /\ r.sender = SVal(BytesAt(cdb, 4, 4))
             /\ r.time = SVal(BytesAt(cdb, 8, 8))

\* a Stop of 16 bytes whose length field says 20 was received and refused by
\* race_read_stop on the third test
C21_Witness ==
  /\ cn = 2
  /\ clast.op = "read"
  /\ clast.type = "stop"
  /\ clast.pre.pos = STOP_MSG_LEN
  /\ clast.ret = 0
  /\ clast.err = "inconsistent header (message length does not match received bytes)"
  /\ cdb.pos = 4

(***************************************************************************)
(* More claims about the hash map                                          *)
(***************************************************************************)
\* the keys of the entries the last iteration returned, in its order
IteratedKeys == [i \in DOMAIN hiter.slots |-> map.entries[hiter.slots[i]].key]

\* C22: an iteration from hmap_first_entry along hmap_next_entry to NULL, in
\* whatever state adds, removes, gets and rehashes have left the map, returns
\* no free slot and no tombstone and returns the entry of every key that was
\* added and not removed since exactly once, and nothing else.
C22_IterationVisitsActive ==
  hiter.done
  => /\ \A i \in DOMAIN hiter.slots :
           /\ ~is_free_entry(map.entries[hiter.slots[i]])
           /\ map.entries[hiter.slots[i]].key # NULL
     /\ \A k \in DOMAIN shadow :
           Cardinality({i \in DOMAIN hiter.slots : IteratedKeys[i] = k}) = 1
     /\ Len(hiter.slots) = Cardinality(DOMAIN shadow)
     /\ Len(hiter.slots) = map.n_entries

\* hmap_add_entry will find the map saturated with tombstones
RehashInPlaceDue ==
  /\ hfault = "none"
  /\ map.n_entries + map.n_removed >= map.consts.max_entries
  /\ map.n_removed > map.consts.max_removed

\* the slots that hold a tombstone
Tombstones(m) ==
  {i \in DOMAIN m.entries : m.entries[i].key = NULL /\ is_deleted_entry(m.entries[i])}

\* C23: when hmap_add_entry finds n_entries + n_removed >= max_entries with
\* n_removed > max_removed, its check_rehash rehashes the map at the same
\* tier: size and rehash constant stay, n_removed is 0 afterwards, n_entries
\* is what it was, no tombstone is left in the array, and every key that was
\* added and not removed since is found by hmap_get_entry with its data.
C23_RehashInPlace ==
  RehashInPlaceDue
  => \A cr \in {check_rehash(map)} :
        /\ cr.ok
        /\ cr.fault = "none"
        /\ cr.map.consts = map.consts
        /\ cr.map.const_idx = map.const_idx
        /\ cr.map.n_removed = 0
        /\ cr.map.n_entries = map.n_entries
        /\ Tombstones(cr.map) = {}
        /\ \A k \in DOMAIN shadow :
              \A g \in {hmap_get_entry(cr.map, k)} : g.ok /\ g.data = shadow[k]

\* hmap_add_entry will find the map full, with few tombstones
GrowthDue ==
  /\ map.n_entries + map.n_removed >= map.consts.max_entries
  /\ map.n_removed <= map.consts.max_removed

\* every key added is found in m with the data it was added with
AllRetrievable(m) ==
  \A k \in DOMAIN shadow :
     \A g \in {hmap_get_entry(m, k)} : g.ok /\ g.data = shadow[k]

IsTombstone(e) == e.key = NULL /\ e.hash = DELETED_HASH

\* the first tombstone on the probe chain of a key with hash h, from slot
\* idx up to the slot that holds the key; -1 if there is none
RECURSIVE FirstTombstone(_, _, _, _, _)
FirstTombstone(m, key, h, idx, n) ==
  LET e == m.entries[idx]
  IN  IF is_free_entry(e) \/ is_matching_entry(e, h, key) \/ n >= m.consts.size THEN -1
      ELSE IF IsTombstone(e) THEN idx
      ELSE FirstTombstone(m, key, h, next_index(m, idx, h), n + 1)

\* the slot that holds the key, -1 if none does
SlotOf(m, key) ==
  IF \E i \in DOMAIN m.entries : m.entries[i].key = key
  THEN CHOOSE i \in DOMAIN m.entries : m.entries[i].key = key
  ELSE -1

\* C25: after a hmap_get_entry(k) that found k, a second hmap_get_entry(k)
\* looks at no more slots than the first and returns the same key and data;
\* when the first call passed a tombstone before it found k, the entry is
\* now in the first tombstone of the probe chain of k and the slot it came
\* from is a tombstone.
C25_RelocationOnLookup ==
  hfault = "none"
  => \A k \in Keys :
        \A g1 \in {hmap_get_entry(map, k)} :
           g1.ok
           => \A g2 \in {hmap_get_entry(g1.map, k)},
                 t \in {FirstTombstone(map, k, HashOf(k), U32Mod(HashOf(k), map.consts.size), 0)} :
                 /\ g2.ok
                 /\ g2.probes <= g1.probes
                 /\ g2.data = g1.data
                 /\ g2.idx = g1.idx
                 /\ g1.map.entries[g1.idx].key = k
                 /\ t # -1
                    => /\ g1.idx = t
                       /\ IsTombstone(g1.map.entries[SlotOf(map, k)])
                       /\ g2.probes < g1.probes

(***************************************************************************)
(* Claims about failures in the message layer                              *)
(***************************************************************************)
\* the calls of race_read_request on the buffer the last call started from,
\* up to the schema: read_header, race_read_int, race_read_strncpy
ChainHeader == read_header(clast.pre, REQUEST_MSG, NO_FIXED_MSG_LEN)
ChainFlags == RInt(ChainHeader)
ChainSchema == RStrncpy(ChainFlags, MAX_SCHEMA_LEN)

\* C26: in race_read_request, where each codec call gets the position the
\* previous one returned, a call that fails and returns 0 ends the chain:
\* the calls behind it return 0 and read nothing, so the buffer stays as the
\* failed call left it, and race_read_request returns 0.
C26_ChainShortCircuits ==
  (/\ clast.op = "read"
   /\ clast.type = "request"
   /\ ChainHeader.pos > 0
   /\ ChainFlags.pos > 0
   /\ ChainSchema.pos = 0)
  => /\ clast.ret = 0
     /\ cdb = ChainSchema.db

(***************************************************************************)
(* Claims about datagrams that are no Request                              *)
(***************************************************************************)
\* datagrams that are not a well-formed Request: another type id, a
\* msg_length that differs from the bytes received, the schema string and the
\* trailing fields missing from the bytes received
MalformedRequests ==
  {UnknownDatagram,
   SubSeq(RequestDatagram(0), 1, Len(RequestDatagram(0)) - 1),
   TruncatedRequest(0)}

\* what wait_for_request does with the datagram d in the current state
Dropped(r) ==
  /\ r.calls = << >>
  /\ r.sends = << >>
  /\ r.remote = NoRemote
  /\ r.n_remote = n_remote

\* C27: a datagram the waiting server receives that is not a well-formed
\* Request is dropped: check_request is not called, no Accept and no Reject
\* is sent, no remote endpoint is created and no id is allocated.
C27_MalformedRequestDropped ==
  pc = "wait_for_request"
  => \A d \in MalformedRequests, src \in Addrs, cr \in CheckChoices, junk \in JunkBytes :
       \A r \in {wait_for_request(context, [local EXCEPT !.db = WithJunk(local.db, junk)],
                                  n_remote, src, d, cr, TRUE, clock)} :
          Dropped(r)

(***************************************************************************)
(* Claims about the callbacks of a connection                              *)
(***************************************************************************)
\* the callbacks of a connection are made in the order started, terminated
StartedBeforeTerminated ==
  \A j \in DOMAIN calls :
     calls[j] = Call("connection_terminated")
     => \E i \in 1 .. j - 1 : calls[i] = Call("connection_started")

\* race_client has returned and establish_connection had returned false
HandshakeFailed == pc = "done" /\ NumCalls("local_terminated") = 0

\* C28: for every connection that was established (the handshake succeeded),
\* connection_started is called exactly once and connection_terminated exactly
\* once, in that order, by the time the connection is over; after a failed
\* handshake connection_terminated is not called and race_client returns false.
C28_ConnectionCallbacks ==
  /\ NumCalls("connection_started") <= 1
  /\ NumCalls("connection_terminated") <= 1
  /\ StartedBeforeTerminated
  /\ (role = "client" /\ pc = "local_terminated")
     => /\ NumCalls("connection_started") = 1
        /\ NumCalls("connection_terminated") = 1
  /\ HandshakeFailed
     => /\ NumCalls("connection_terminated") = 0
        /\ ret = "false"

\* the connection_paused and connection_resumed callbacks made so far on the
\* connection, in order
IsPauseResume(c) == c[1] \in {"connection_paused", "connection_resumed"}
PauseResumeCalls == SelectSeq(delivered, IsPauseResume)

\* the connection is PAUSED after a Pause and ACTIVE again after a Resume
IsPaused ==
  /\ PauseResumeCalls # << >>
  /\ PauseResumeCalls[Len(PauseResumeCalls)][1] = "connection_paused"

\* the callback the connection's state asks for when the datagram d arrives
ExpectedCallback(d) ==
  LET db == recvfrom(PeerBuf, d)
  IN  IF race_is_pause(db) /\ race_read_pause(db).sender = remote.id /\ ~IsPaused
      THEN <<<<"connection_paused", 0>>>>
      ELSE IF race_is_resume(db) /\ race_read_resume(db).sender = remote.id /\ IsPaused
      THEN <<<<"connection_resumed", 0>>>>
      ELSE << >>

\* C29: connection_paused is called exactly when a Pause from the remote's id
\* arrives while the connection is active, connection_resumed exactly when a
\* Resume from the remote's id arrives while it is paused; the two callbacks
\* alternate, starting with connection_paused, and a Pause or Resume from
\* another sender id or in the other state calls nothing.
C29_PauseResumeAlternate ==
  /\ \A i \in DOMAIN PauseResumeCalls :
        PauseResumeCalls[i][1] = IF i % 2 = 1 THEN "connection_paused"
                                 ELSE "connection_resumed"
  /\ rpc = "recv"
     => \A d \in ClientIncoming, src \in SessionAddrs, junk \in JunkBytes :
          (race_is_pause(recvfrom(PeerBuf, d)) \/ race_is_resume(recvfrom(PeerBuf, d)))
          => receive_message(context, remote, src, d, junk).calls = ExpectedCallback(d)

(***************************************************************************)
(* Claims about a tick of the sender                                       *)
(***************************************************************************)
\* what context->write_data(db,pos) returns in send_data in this state
WriteDataPos(wd) ==
  LET b == race_begin_write_data(local.db, local.id, clock)
  IN  write_data(b.db, b.pos, wd).pos

\* one iteration of the sender loop with the write_data outcome wd
Tick(wd, ok) ==
  /\ pc = "loop"
  /\ ~remote.is_stopped /\ ~context.stop_local
  /\ SenderLoop(wd, ok)

\* the tick sent nothing, send_data returned true and the loop goes on
NoDatagram ==
  /\ sent' = sent
  /\ pc' = "loop"
  /\ loop_exit' = loop_exit

\* the tick made one sendto of n bytes whose msg_length field is n
OneDatagram(n) ==
  /\ Len(sent') = Len(sent) + 1
  /\ SubSeq(sent', 1, Len(sent)) = sent
  /\ Len(sent'[Len(sent')].msg) = n
  /\ SVal(SubSeq(sent'[Len(sent')].msg, 3, 4)) = n
  /\ IsDataMsg(sent'[Len(sent')].msg)

\* C30: in send_data, when write_data returns a negative value no datagram is
\* sent for the tick, the engine emits the warning "no data payload written",
\* send_data returns true and the sender loop goes on; when it returns 0 the
\* same holds but no warning is emitted; when it returns a value > 0,
\* msg_length is patched to that value and one sendto of exactly that many
\* bytes is made.
C30_NoDataTick ==
  [][\A wd \in WriteDataChoices, ok \in BOOLEAN :
       Tick(wd, ok)
       => \A n \in {WriteDataPos(wd)} :
            IF n < 0
            THEN NoDatagram /\ report' = "warning: no data payload written"
            ELSE IF n = 0
            THEN NoDatagram /\ report' = NoReport
            ELSE OneDatagram(n)]_vars

\* a tick without data has passed with its warning and the loop goes on
C30_Witness ==
  /\ pc = "loop"
  /\ NumCalls("send_data") = 1
  /\ \A i \in DOMAIN sent : ~IsDataMsg(sent[i].msg)
  /\ report = "warning: no data payload written"

\* C30 as stated: when write_data returns a value <= 0 no datagram is sent,
\* the engine emits a warning, send_data returns true and the loop goes on;
\* when it returns a value > 0 exactly that many bytes are sent with
\* msg_length patched to that value.
C30_AsStated ==
  [][\A wd \in WriteDataChoices, ok \in BOOLEAN :
       Tick(wd, ok)
       => \A n \in {WriteDataPos(wd)} :
            IF n <= 0
            THEN NoDatagram /\ report' = "warning: no data payload written"
            ELSE OneDatagram(n)]_vars

(***************************************************************************)
(* Claims about the time difference                                        *)
(***************************************************************************)
\* context.time_diff after a handshake at the local time now with the
\* simulation time sim_millis
TimeDiffAfter(sim_millis, now) ==
  IF now - sim_millis > MAX_TIME_DIFF \/ sim_millis - now > MAX_TIME_DIFF
  THEN now - sim_millis
  ELSE context.time_diff

\* C31: at the handshake (the server when it accepts, the client when it
\* reads the Accept) context.time_diff becomes local time - sim_millis if
\* and only if the absolute value of that difference exceeds MAX_TIME_DIFF
\* (1000); a difference of 1000 or less leaves context.time_diff as it is.
C31_TimeDiffAtHandshake ==
  /\ pc = "wait_for_request"
     => \A src \in Addrs, t \in Times, cr \in CheckChoices, ok \in BOOLEAN,
           junk \in JunkBytes :
          cr.reject = 0
          => \A chk \in {check_request(RequestRead[t].sim_millis,
                                        RequestRead[t].interval_millis, cr)} :
               Handled(src, t, cr, ok, junk).context.time_diff
                 = TimeDiffAfter(chk.sim_millis, clock)
  /\ pc = "wait_for_response"
     => \A src \in Addrs, d \in ResponseDatagrams, junk \in JunkBytes :
          \A a \in {race_read_accept(recvfrom(PeerBuf, d))} :
            (IsAcceptMsg(d) /\ a.pos > 0)
            => wait_for_response(context, [local EXCEPT !.db = WithJunk(local.db, junk)],
                                 remote, src, d, clock).context.time_diff
                 = TimeDiffAfter(a.sim_millis, clock)

\* the server has accepted at a difference of more than MAX_TIME_DIFF, after
\* an Accept at a smaller difference had left time_diff alone
C31_Witness ==
  /\ Len(accepted) = 2
  /\ pc = "run_connection_threaded"
  /\ context.time_diff = MaxClock

(***************************************************************************)
(* Claims about datagrams the receiver drops                               *)
(***************************************************************************)
\* the datagram d is one receive_message has to drop on this connection: a
\* Stop, Pause, Resume or Data that is unreadable or carries another sender
\* id, a Data older than time_last, or a datagram of another type
IsDropped(d) ==
  LET db == recvfrom(PeerBuf, d)
  IN  IF race_is_stop(db)
      THEN \A h \in {race_read_stop(db)} : h.pos = 0 \/ h.sender # remote.id
      ELSE IF race_is_data(db)
      THEN \A h \in {race_read_data_header(db)} :
              h.pos = 0 \/ h.sender # remote.id \/ h.time < remote.time_last
      ELSE IF race_is_pause(db)
      THEN \A h \in {race_read_pause(db)} : h.pos = 0 \/ h.sender # remote.id
      ELSE IF race_is_resume(db)
      THEN \A h \in {race_read_resume(db)} : h.pos = 0 \/ h.sender # remote.id
      ELSE TRUE

\* C32: during an active connection a received datagram that is dropped (a
\* Data, Stop, Pause or Resume with a sender id other than remote.id, an
\* out-of-order Data, a malformed header, a Request or another unexpected
\* type, or a datagram from another source address) leaves the whole remote
\* endpoint record as it is: id, time_last, is_stopped and the address the
\* sender uses for sendto.
C32_DroppedLeavesRemote ==
  rpc = "recv"
  => \A src \in Addrs, d \in ServerIncoming \cup ClientIncoming, junk \in JunkBytes :
       (IsDropped(d) \/ src # remote.addr)
       => receive_message(context, remote, src, d, junk).remote = remote

(***************************************************************************)
(* Claims about a session of race_client with race_server                  *)
(***************************************************************************)
\* the local endpoint of a race_client once wait_for_response has read the
\* Accept that carries client_id
ClientLocalAfterAccept(client_id) ==
  wait_for_response(context,
                    [mem |-> "alloc", fd |-> 3, id |-> 0, interval_millis |-> 0,
                     is_non_blocking |-> FALSE,
                     db |-> race_create_databuf(MAX_MSG_LEN, 0)],
                    CallocRemote, ServerAddr, AcceptDatagram(client_id, 0), clock).local

\* the Stop datagram that client's send_stop puts on the wire
ClientStop(client_id) ==
  send_stop(ClientLocalAfterAccept(client_id), CallocRemote, TRUE, clock).sends[1].msg

\* C33: in a session of race_client with race_server, when the client sets
\* stop_local and the Stop it sends is delivered, the server's receiver sets
\* remote.is_stopped (after which the server's sender loop exits without a
\* Stop of its own, connection_terminated is called and the server waits for
\* the next Request).
C33_ClientStopEndsSession ==
  (role = "server" /\ rpc = "recv")
  => \A src \in SessionAddrs, junk \in JunkBytes :
       receive_message(context, remote, src, ClientStop(remote.id), junk).remote.is_stopped

(***************************************************************************)
(* Claims about the requests of a client                                   *)
(***************************************************************************)
\* the datagram is a Request as write_request composes it
IsRequestMsg(m) ==
  \A rq \in {race_read_request(recvfrom(PeerBuf, m), MAX_SCHEMA_LEN)} :
     /\ rq.pos = Len(m)
     /\ m = Wire(write_request(context, PeerBuf, rq.time_sent).db, Len(m))

\* C34: every datagram the client sends during establish_connection, the
\* first attempt and every retry after a failed wait_for_response, is the
\* Request the write_request callback composed, byte for byte and with its
\* length.
C34_RetrySendsRequest ==
  (role = "client" /\ pc \in {"request_loop", "wait_for_response", "run_connection_threaded"})
  => \A i \in DOMAIN sent :
       /\ IsRequestMsg(sent[i].msg)
       /\ sent[i].msg = sent[1].msg

(***************************************************************************)
(* Claims about the shutdown of a connection                               *)
(***************************************************************************)
\* run_connection_threaded is between pthread_create and its return
InConnection ==
  pc \in {"connection_started", "loop", "after_loop", "pthread_join", "connection_terminated"}

Contents(m) ==
  LET slots == IterateFrom(m, hmap_first_entry(m), << >>, m.consts.size + 1)
  IN  {<<m.entries[slots[i]].key, m.entries[slots[i]].data>> : i \in DOMAIN slots}

\* C36: hmap_get_entry does not change the contents of the map: for every
\* reachable map and every key looked up, found or not, the (key, data)
\* pairs an iteration yields and the counters n_entries and n_removed are the
\* same before and after the call, whatever the hashes of the stored keys
\* (0xFFFFFFFF, the tombstone marker, included).
C36_GetKeepsContents ==
  hfault = "none"
  => \A k \in Keys :
       \A g \in {hmap_get_entry(map, k)} :
          /\ Contents(g.map) = Contents(map)
          /\ g.map.n_entries = map.n_entries
          /\ g.map.n_removed = map.n_removed

\* the free slots of the array
FreeSlots(m) == {i \in DOMAIN m.entries : is_free_entry(m.entries[i])}

\* C37: in every reachable map state n_entries + n_removed <= max_entries <
\* size, so the array holds at least one free slot, and every probe loop of
\* hmap_add_entry, hmap_get_entry, hmap_remove_entry and rehash reaches a free
\* slot or a match and ends, for keys that are in the map and keys that are
\* not.
C37_ProbesTerminate ==
  /\ hfault # "hang"
  /\ hfault = "none"
     => /\ map.n_entries + map.n_removed <= map.consts.max_entries
        /\ map.consts.max_entries < map.consts.size
        /\ FreeSlots(map) # {}
        /\ \A k \in Keys :
              /\ hmap_get_entry(map, k).fault # "hang"
              /\ hmap_remove_entry(map, k).fault # "hang"
              /\ hmap_add_entry(map, k, 1).fault # "hang"

\* tombstones have filled the first tier and a rehash has cleared them
C37_Witness ==
  /\ hfault = "none"
  /\ map.n_entries + map.n_removed = map.consts.max_entries
  /\ map.n_removed > 0
  /\ Cardinality(DOMAIN shadow) < NKeys

(***************************************************************************)
(* Claims about the counters and the keys of the hash map                  *)
(***************************************************************************)
\* the slots whose key pointer is not null
KeySlots(m) == {i \in DOMAIN m.entries : m.entries[i].key # NULL}

\* key has an entry in m
HasKey(m, key) == \E i \in KeySlots(m) : m.entries[i].key = key

\* C38: in every reachable map state n_entries is the number of slots whose
\* key pointer is not null and n_removed is the number of tombstone slots;
\* hmap_add_entry of a new key increments n_entries only (a rehash before it
\* sets n_removed to 0), of a present key changes neither counter of the map
\* it probes, a successful hmap_remove_entry decrements n_entries and
\* increments n_removed, a remove of an absent key and a hmap_get_entry
\* change neither.
C38_CountersMatchSlots ==
  hfault = "none"
  => /\ map.n_entries = Cardinality(KeySlots(map))
     /\ map.n_removed = Cardinality(Tombstones(map))
     /\ \A k \in Keys :
          /\ \A g \in {hmap_get_entry(map, k)} :
                g.map.n_entries = map.n_entries /\ g.map.n_removed = map.n_removed
          /\ \A r \in {hmap_remove_entry(map, k)} :
                IF HasKey(map, k)
                THEN /\ r.ok
                     /\ r.map.n_entries = map.n_entries - 1
                     /\ r.map.n_removed = map.n_removed + 1
                ELSE /\ ~r.ok
                     /\ r.map.n_entries = map.n_entries
                     /\ r.map.n_removed = map.n_removed
          /\ \A cr \in {check_rehash(map)} :
                (cr.ok /\ cr.fault = "none")
                => /\ cr.map.n_entries = map.n_entries
                   /\ cr.map.n_removed \in {0, map.n_removed}
                   /\ \A a \in {hmap_add_entry(map, k, 1)} :
                        /\ a.map.n_removed = cr.map.n_removed
                        /\ a.map.n_entries =
                             IF HasKey(map, k) THEN map.n_entries ELSE map.n_entries + 1

\* bool check_duplicates (hmap_t* map): no two slots with a key hold equal
\* strings
check_duplicates(m) ==
  \A i \in DOMAIN m.entries :
     m.entries[i].key # NULL
     => \A j \in i + 1 .. m.consts.size - 1 :
           m.entries[j].key # NULL => m.entries[j].key # m.entries[i].key

\* C39: in every reachable map state no two occupied slots hold equal keys
\* (check_duplicates returns true), also after a removed key was added again,
\* after hmap_get_entry relocated an entry, and after a rehash in place or
\* with growth.  After a rehash that read past the old array ("oob") the new
\* array holds whatever was read there as an entry, and check_duplicates
\* hands its key to strcmp: it is not known to return.
C39_NoDuplicateKeys ==
  /\ hfault # "oob"
  /\ hfault = "none"
     => /\ check_duplicates(map)
        /\ \A k \in Keys :
             /\ check_duplicates(hmap_get_entry(map, k).map)
             /\ \A a \in {hmap_add_entry(map, k, 1)} :
                   a.fault = "none" => check_duplicates(a.map)

(***************************************************************************)
(* Iteration with lookups between its steps                                *)
(***************************************************************************)
\* the number of iteration steps that are followed by a lookup
MaxGets == 2

\* what the caller looks up after each of the first MaxGets steps: a key, or
\* NULL for no lookup
GetPlans == [1 .. MaxGets -> Keys \cup {NULL}]

\* for (e = hmap_first_entry(map); e; e = hmap_next_entry(map, e)) with a
\* call hmap_get_entry(map, gets[n]) in the body of the n-th pass: the keys
\* the loop body sees, in order
RECURSIVE IterateWithGets(_, _, _, _)
IterateWithGets(m, e, seen, gets) ==
  IF e = -1 \/ Len(seen) > m.consts.size THEN seen
  ELSE LET n  == Len(seen) + 1
           m1 == IF n \in DOMAIN gets /\ gets[n] # NULL
                 THEN hmap_get_entry(m, gets[n]).map
                 ELSE m
       IN  IterateWithGets(m1, hmap_next_entry(m1, e), Append(seen, m.entries[e].key), gets)

\* C40: an iteration from hmap_first_entry along hmap_next_entry during which
\* hmap_get_entry is called on arbitrary keys between two steps, with no add
\* and no remove, visits the entry of every key that is in the map exactly
\* once.
C40_IterationWithGets ==
  hfault = "none"
  => \A gets \in GetPlans :
       \A seen \in {IterateWithGets(map, hmap_first_entry(map), << >>, gets)} :
          /\ Len(seen) = Cardinality(DOMAIN shadow)
          /\ \A k \in DOMAIN shadow :
                Cardinality({i \in DOMAIN seen : seen[i] = k}) = 1

====
